---- MODULE Spec2Model ----
(***************************************************************************)
(* Model of the static validation engine of mofox-plugin-toolkit (mpdt):   *)
(*   - ComponentValidator: component discovery, structural checks and the  *)
(*     relaxed return-type comparator (validators/component_validator.py)  *)
(*   - AutoFixValidator: the message-driven fixes and the libcst           *)
(*     transformers (validators/auto_fix_validator.py)                     *)
(*                                                                         *)
(* Strings are modelled as sequences of tokens.  The token alphabet is     *)
(* prefix-free, so two token sequences are equal exactly when the Python   *)
(* strings they spell are equal, and a substring test for one of the       *)
(* literals the code looks for is a test for the corresponding token.      *)
(***************************************************************************)
EXTENDS Integers, Sequences, FiniteSets, TLC

VARIABLES
    pc,          \* position of the run: which operation has been applied
    actual,      \* _compare_type_annotations: first argument
    expected,    \* _compare_type_annotations: second argument
    cmp_result,  \* value returned by _compare_type_annotations
    cmp_swapped, \* value returned for the arguments swapped
    body,        \* get_components: the top-level statements of its body
    components,  \* value returned by _extract_components_from_get_components
    component,   \* _validate_component: the component, its file and its class
    issues,      \* ValidationResult.issues of the validator run
    files,       \* the plugin tree: path -> content of the source file
    import_from, \* import path of the component in plugin.py
    checked,     \* the plugin tree the validator read
    fixed_once,  \* the plugin tree after the first call of fix_issues
    fixes_applied, \* AutoFixValidator.fixes_applied
    fixes_failed,  \* AutoFixValidator.fixes_failed
    passes,      \* number of fix_issues calls made with the issue set
    visited,     \* loop iterations of the dispatchers in the last fix_issues call
    manifest,    \* the content of manifest.json
    meta_result, \* what MetadataValidator.validate returned, or that it raised
    entry_imports, \* the `from ... import ...` statements of the entry file
    import_map,  \* the map _collect_imports built: name -> import path
    plugin_file, \* plugin.py: what validate reads of the plugin class
    config_source,\* plugin.py and the plugin tree as ConfigValidator reads them
    plugin_dir,  \* the plugin directory: its name, plugin.py, whether it is writable
    manifest_before \* manifest.json as it was when the manifest fix began

compareVars == <<actual, expected, cmp_result, cmp_swapped>>
discoveryVars == <<body, components>>
validateVars == <<component, issues>>
fixVars ==
    <<files, import_from, checked, fixed_once, fixes_applied, fixes_failed, passes, visited>>

metaVars == <<manifest, meta_result>>

importVars == <<entry_imports, import_map>>

runVars == <<plugin_file>>

configVars == <<config_source>>

manifestFixVars == <<plugin_dir, manifest_before>>

vars ==
    <<pc, compareVars, discoveryVars, validateVars,
      fixVars, metaVars, importVars, runVars, configVars, manifestFixVars>>

(***************************************************************************)
(* Generic sequence helpers                                                *)
(***************************************************************************)
RECURSIVE SeqsUpTo(_, _)
SeqsUpTo(S, n) ==
    IF n = 0 THEN {<<>>}
    ELSE LET shorter == SeqsUpTo(S, n - 1)
         IN  shorter \cup {Append(s, x) : s \in {t \in shorter : Len(t) = n - 1}, x \in S}

Range(s) == {s[i] : i \in 1..Len(s)}

(***************************************************************************)
(* Annotation strings                                                      *)
(***************************************************************************)
MaxTokens == 2

WordTokens ==
    {"str", "int", "None", "Optional", "Union", "tuple", "bool", "dict", "list",
     "Any", "MessageEnvelope", "AsyncGenerator"}
PunctTokens == {"[", "]", "|", ",", " "}

\* tokens from which the enumerated annotation strings are built
AnnAlphabet == {"str", "int", "None", "Optional", "Union", "[", "]", "|", " "}

\* the annotation strings the specification names
TupleBoolStr == <<"tuple", "[", "bool", ",", "str", "]">>
TupleBare == <<"tuple">>
OptionalStr == <<"Optional", "[", "str", "]">>
StrOrNone == <<"str", " ", "|", " ", "None">>
StrBare == <<"str">>
IntBare == <<"int">>
UnionStrNone == <<"Union", "[", "str", ",", " ", "None", "]">>

NamedAnnotations ==
    {TupleBoolStr, TupleBare, OptionalStr, StrOrNone, StrBare, IntBare, UnionStrNone}

Annotations == SeqsUpTo(AnnAlphabet, MaxTokens) \cup NamedAnnotations

\* str.replace(" ", "")
RECURSIVE StripSpaces(_)
StripSpaces(s) ==
    IF s = <<>> THEN <<>>
    ELSE IF Head(s) = " " THEN StripSpaces(Tail(s))
    ELSE <<Head(s)>> \o StripSpaces(Tail(s))

\* `lit in s` for a literal that is one token
Contains(s, tok) == tok \in Range(s)

\* str.replace("Optional[", "")
RECURSIVE RemoveOptionalOpen(_)
RemoveOptionalOpen(s) ==
    IF s = <<>> THEN <<>>
    ELSE IF Len(s) >= 2 /\ s[1] = "Optional" /\ s[2] = "["
         THEN RemoveOptionalOpen(SubSeq(s, 3, Len(s)))
    ELSE <<Head(s)>> \o RemoveOptionalOpen(Tail(s))

\* str.replace("]", "|None")
RECURSIVE CloseToOrNone(_)
CloseToOrNone(s) ==
    IF s = <<>> THEN <<>>
    ELSE IF Head(s) = "]" THEN <<"|", "None">> \o CloseToOrNone(Tail(s))
    ELSE <<Head(s)>> \o CloseToOrNone(Tail(s))

NormalizeOptional(s) == CloseToOrNone(RemoveOptionalOpen(s))

\* s.split("[")[0]
RECURSIVE GenericBase(_)
GenericBase(s) ==
    IF s = <<>> THEN <<>>
    ELSE IF Head(s) = "[" THEN <<>>
    ELSE <<Head(s)>> \o GenericBase(Tail(s))

\* set(re.findall(r"\w+", s)): the maximal runs of word characters
RECURSIVE WordRuns(_, _)
WordRuns(s, run) ==
    IF s = <<>> THEN (IF run = <<>> THEN {} ELSE {run})
    ELSE IF Head(s) \in WordTokens THEN WordRuns(Tail(s), Append(run, Head(s)))
    ELSE (IF run = <<>> THEN {} ELSE {run}) \cup WordRuns(Tail(s), <<>>)

IdentifierSet(s) == WordRuns(s, <<>>)

\* the operand the code passes to the second findall (line 1022)
ExpectedTypesOperand(a, e) == a

HasUnionSyntax(s) == Contains(s, "Union") \/ Contains(s, "|")

\* a plausible slip: only the first argument is searched for Union syntax
UnionRuleAppliesActualOnly(a, e) == HasUnionSyntax(a)

\* the guard of the Union rule (line 1019)
UnionRuleApplies(a, e) == HasUnionSyntax(a) \/ HasUnionSyntax(e)

CompareTypeAnnotations(act, exp) ==
    LET a0 == StripSpaces(act)
        e0 == StripSpaces(exp)
        opt == Contains(a0, "Optional") \/ Contains(e0, "Optional")
        a1 == IF opt THEN NormalizeOptional(a0) ELSE a0
        e1 == IF opt THEN NormalizeOptional(e0) ELSE e0
    IN  IF a0 = e0 THEN TRUE
        ELSE IF opt /\ a1 = e1 THEN TRUE
        ELSE IF GenericBase(a1) = GenericBase(e1) THEN TRUE
        ELSE IF UnionRuleApplies(a1, e1)
             THEN IdentifierSet(a1) = IdentifierSet(ExpectedTypesOperand(a1, e1))
        ELSE FALSE

(***************************************************************************)
(* Component discovery: the body of get_components                         *)
(***************************************************************************)
MaxBody == 3

LocalVars == {"components", "extra"}
ClassNames == {"Foo", "Bar"}

\* literal lists of names: [], [Foo], [Bar], [Foo, Bar], [Bar, Foo]
ListLiterals == {l \in SeqsUpTo(ClassNames, 2) : Cardinality(Range(l)) = Len(l)}

\* the import map of the entry file: Foo is imported, Bar is co-located
ImportOf(class_name) == IF class_name = "Foo" THEN ".actions.foo" ELSE ""

Stmt(k, t, e) == [kind |-> k, target |-> t, elts |-> e]

Statements ==
    {Stmt("assign", v, l) : v \in LocalVars, l \in ListLiterals}          \* v = [A, B]
    \cup {Stmt("append", v, <<c>>) : v \in LocalVars, c \in ClassNames}   \* v.append(A)
    \cup {Stmt("return_list", "", l) : l \in ListLiterals}               \* return [A, B]
    \cup {Stmt("return_name", v, <<>>) : v \in LocalVars}                \* return v
    \cup {Stmt("return_expr", "", <<>>)}                                 \* return f()
    \cup {Stmt("return_none", "", <<>>)}                                 \* return
    \cup {Stmt("other", "", <<>>)}                                       \* for ...: / call
    \cup {Stmt("if_return", "", <<"Foo">>)}                              \* if ...: return [Foo]

\* components = []; components.append(Foo); components.append(Bar); return components
ScenarioCBody ==
    << Stmt("assign", "components", <<>>),
       Stmt("append", "components", <<"Foo">>),
       Stmt("append", "components", <<"Bar">>),
       Stmt("return_name", "components", <<>>) >>

Bodies == SeqsUpTo(Statements, MaxBody) \cup {ScenarioCBody}

NoList == <<"<unassigned>">>

\* local_vars[v] after the first loop: the list node of the last assignment
RECURSIVE LocalVarList(_, _)
LocalVarList(stmts, v) ==
    IF stmts = <<>> THEN NoList
    ELSE LET last == stmts[Len(stmts)]
         IN  IF last.kind = "assign" /\ last.target = v THEN last.elts
             ELSE LocalVarList(SubSeq(stmts, 1, Len(stmts) - 1), v)

\* local_appends[v] after the first loop: every appended name, in order
RECURSIVE LocalAppends(_, _)
LocalAppends(stmts, v) ==
    IF stmts = <<>> THEN <<>>
    ELSE (IF Head(stmts).kind = "append" /\ Head(stmts).target = v
          THEN Head(stmts).elts ELSE <<>>) \o LocalAppends(Tail(stmts), v)

\* a plausible slip: appended names are put in front of the literal elements
ReturnedNamesAppendsFirst(stmts, ret) ==
    IF ret.kind = "return_list" THEN ret.elts
    ELSE IF ret.kind = "return_name"
         THEN LocalAppends(stmts, ret.target)
              \o (IF LocalVarList(stmts, ret.target) # NoList
                  THEN LocalVarList(stmts, ret.target) ELSE <<>>)
    ELSE <<>>

\* component_list for the return statement ret (lines 404-425)
ReturnedNames(stmts, ret) ==
    IF ret.kind = "return_list" THEN ret.elts
    ELSE IF ret.kind = "return_name"
         THEN (IF LocalVarList(stmts, ret.target) # NoList
               THEN LocalVarList(stmts, ret.target) ELSE <<>>)
              \o LocalAppends(stmts, ret.target)
    ELSE <<>>

IsValueReturn(st) == st.kind \in {"return_list", "return_name", "return_expr"}

\* index of the first `return <value>` among the top-level statements, or 0
RECURSIVE FirstValueReturn(_, _)
FirstValueReturn(stmts, i) ==
    IF i > Len(stmts) THEN 0
    ELSE IF IsValueReturn(stmts[i]) THEN i
    ELSE FirstValueReturn(stmts, i + 1)

ComponentInfo(class_name) == [class_name |-> class_name, import_from |-> ImportOf(class_name)]

ExtractComponentsFromGetComponents(stmts) ==
    LET r == FirstValueReturn(stmts, 1)
    IN  IF r = 0 THEN <<>>
        ELSE LET names == ReturnedNames(stmts, stmts[r])
             IN  [i \in 1..Len(names) |-> ComponentInfo(names[i])]

(***************************************************************************)
(* Rule tables (COMPONENT_REQUIRED_FIELDS, COMPONENT_REQUIRED_METHODS,     *)
(* COMPONENT_METHOD_SIGNATURES)                                            *)
(***************************************************************************)
COMPONENT_REQUIRED_FIELDS ==
    [Action |-> <<"action_name", "action_description">>,
     BaseAction |-> <<"action_name", "action_description">>,
     Command |-> <<"command_name", "command_description">>,
     BaseCommand |-> <<"command_name", "command_description">>,
     Tool |-> <<"tool_name", "tool_description">>,
     BaseTool |-> <<"tool_name", "tool_description">>,
     EventHandler |-> <<"handler_name", "handler_description">>,
     BaseEventHandler |-> <<"handler_name", "handler_description">>,
     Adapter |-> <<"adapter_name", "adapter_description">>,
     BaseAdapter |-> <<"adapter_name", "adapter_description">>,
     Chatter |-> <<"chatter_name", "chatter_description">>,
     BaseChatter |-> <<"chatter_name", "chatter_description">>,
     Collection |-> <<"collection_name", "collection_description">>,
     BaseCollection |-> <<"collection_name", "collection_description">>,
     Service |-> <<"service_name", "service_description">>,
     BaseService |-> <<"service_name", "service_description">>,
     Router |-> <<"router_name", "router_description">>,
     BaseRouterComponent |-> <<"router_name", "router_description">>]

COMPONENT_REQUIRED_METHODS ==
    [BaseAction |-> <<"execute">>,
     BaseCommand |-> <<"execute">>,
     BaseTool |-> <<"execute">>,
     BaseEventHandler |-> <<"execute">>,
     BaseAdapter |-> <<"from_platform_message", "get_bot_info">>,
     BaseChatter |-> <<"execute">>,
     BaseCollection |-> <<"get_contents">>,
     BaseRouterComponent |-> <<"register_endpoints">>]

\* "variable" stands for the string the table uses for *args/**kwargs methods
VariableParams == <<"variable">>

\* sum(1 for param in required_params if param[1] != "optional")
RECURSIVE CountRequired(_)
CountRequired(params) ==
    IF params = <<>> THEN 0
    ELSE (IF Head(params)[2] # "optional" THEN 1 ELSE 0) + CountRequired(Tail(params))

SigSpec(p, r, a) == [params |-> p, return_type |-> r, is_async |-> a]

COMPONENT_METHOD_SIGNATURES ==
    [BaseAction |->
        [execute |-> SigSpec(VariableParams,
                             <<"tuple", "[", "bool", ",", " ", "str", "]">>, TRUE)],
     BaseCommand |->
        [execute |-> SigSpec(<< <<"message_text", "str">> >>,
                             <<"tuple", "[", "bool", ",", " ", "str", "]">>, TRUE)],
     BaseTool |->
        [execute |-> SigSpec(VariableParams,
                             <<"tuple", "[", "bool", ",", " ", "str", " ", "|", " ", "dict", "]">>,
                             TRUE)],
     BaseEventHandler |->
        [execute |-> SigSpec(<< <<"kwargs", "dict | None">> >>,
                             <<"tuple", "[", "bool", ",", " ", "bool", ",", " ",
                               "str", " ", "|", " ", "None", "]">>, TRUE)],
     BaseAdapter |->
        [from_platform_message |-> SigSpec(<< <<"raw", "Any">> >>, <<"MessageEnvelope">>, TRUE),
         get_bot_info |-> SigSpec(<<>>, <<"dict", "[", "str", ",", " ", "Any", "]">>, TRUE)],
     BaseChatter |->
        [execute |-> SigSpec(<<>>, <<"AsyncGenerator">>, TRUE)],
     BaseCollection |->
        [get_contents |-> SigSpec(<<>>, <<"list", "[", "str", "]">>, TRUE)],
     BaseRouterComponent |->
        [register_endpoints |-> SigSpec(<<>>, <<"None">>, FALSE)]]

\* dict.get(key, default)
GetOr(table, key, default) == IF key \in DOMAIN table THEN table[key] ELSE default

(***************************************************************************)
(* Component classes as the validator sees them                            *)
(***************************************************************************)
MaxStmts == 2

\* first base expression of the class statement
BaseExpr(k, n) == [kind |-> k, id |-> n]

\* _get_base_class (lines 645-669)
GetBaseClass(base) ==
    IF base.kind = "name" THEN base.id          \* class C(BaseAction)
    ELSE IF base.kind = "attribute" THEN base.id \* class C(module.BaseAction)
    ELSE ""                                      \* no base, or another expression

\* right-hand sides of a class attribute
\*   absent      the class body has no assignment to the attribute
\*   str         name = "foo"          (non-empty string constant)
\*   empty_str   name = ""
\*   empty_list  name = []
\*   name_ref    name = DEFAULT_NAME   (an expression whose value is not empty)
\*   ann_only    name: str             (annotation without a value)
AttrKinds == {"absent", "str", "empty_str", "empty_list", "name_ref", "ann_only"}

\* _extract_value (lines 705-728): the string kept for the attribute, or None
ExtractValue(kind) ==
    IF kind = "str" THEN "foo"
    ELSE IF kind = "empty_str" THEN "None"      \* str(value) if value else None
    ELSE IF kind = "empty_list" THEN "[...]"
    ELSE "None"                                 \* name_ref: not a literal; ann_only: no value

\* truthiness of the value _extract_value returned
Truthy(value) == value # "None"

\* statements of a method body
\*   docstring    an expression statement holding a constant
\*   pass         pass
\*   raise_bare   raise NotImplementedError
\*   raise_call   raise NotImplementedError("...")
\*   other        any other statement
StmtKinds == {"docstring", "pass", "raise_bare", "raise_call", "other"}

MethodBodies == SeqsUpTo(StmtKinds, MaxStmts) \ {<<>>}

NoAnnotation == <<"<no annotation>">>

Method(a, n, va, kw, r, b) ==
    [is_async |-> a, nargs |-> n, vararg |-> va, kwarg |-> kw, returns |-> r, stmts |-> b]

NoMethod == [is_async |-> FALSE, nargs |-> 0, vararg |-> FALSE, kwarg |-> FALSE,
             returns |-> NoAnnotation, stmts |-> <<>>]

\* a plausible slip: a raise of the bare exception class is taken as a stub
\* and the call form is not
IsStubStatementNameOnly(st) == st \in {"docstring", "pass", "raise_bare"}

\* the statements the loop of _check_method_implementation skips (lines 819-832)
IsStubStatement(st) == st \in {"docstring", "pass", "raise_call"}

IsStub(stmts) == \A i \in 1..Len(stmts) : IsStubStatement(stmts[i])

\* a ValidationIssue.  kind stands for the fixed wording of the message,
\* class_name, subject and arg for the names the message embeds, and
\* suggestion for the wording of the suggestion ("none": no suggestion)
Issue(l, k, c, s, f, sug, a) ==
    [level |-> l, kind |-> k, class_name |-> c, subject |-> s, file_path |-> f,
     suggestion |-> sug, arg |-> a]

\* _check_method_implementation (lines 779-843)
CheckMethodImplementation(c, m) ==
    LET meth == c.methods[m]
    IN  IF meth.stmts = <<>>
        THEN <<Issue("warning", "empty_method", c.class_name, m, c.file_path, "none", <<>>)>>
        ELSE IF IsStub(meth.stmts)
        THEN <<Issue("warning", "stub_method", c.class_name, m, c.file_path, "implement", <<>>)>>
        ELSE <<>>

\* [param[0] for param in required_params if param[1] != "optional"]
RECURSIVE RequiredParamNames(_)
RequiredParamNames(params) ==
    IF params = <<>> THEN <<>>
    ELSE (IF Head(params)[2] # "optional" THEN <<Head(params)[1]>> ELSE <<>>)
         \o RequiredParamNames(Tail(params))

\* a plausible slip: the two levels are exchanged
CheckAsyncLevelsSwapped(c, m, sig) ==
    LET meth == c.methods[m]
    IN  IF sig.is_async /\ ~meth.is_async
        THEN <<Issue("warning", "should_be_async", c.class_name, m, c.file_path, "change_to_async", <<>>)>>
        ELSE IF ~sig.is_async /\ meth.is_async
        THEN <<Issue("error", "should_not_be_async", c.class_name, m, c.file_path,
                     "change_to_sync", <<>>)>>
        ELSE <<>>

\* the asynchrony check of _check_method_signature (lines 869-884)
CheckAsync(c, m, sig) ==
    LET meth == c.methods[m]
    IN  IF sig.is_async /\ ~meth.is_async
        THEN <<Issue("error", "should_be_async", c.class_name, m, c.file_path, "change_to_async", <<>>)>>
        ELSE IF ~sig.is_async /\ meth.is_async
        THEN <<Issue("warning", "should_not_be_async", c.class_name, m, c.file_path,
                     "change_to_sync", <<>>)>>
        ELSE <<>>

\* a plausible slip: *args and **kwargs are not looked at
CheckParamsWithoutCatchAll(c, m, sig) ==
    LET meth == c.methods[m]
        actual_args == IF meth.nargs > 0 THEN meth.nargs - 1 ELSE 0
        min_params == CountRequired(sig.params)
        max_params == Len(sig.params)
    IN  IF sig.params = VariableParams THEN <<>>
        ELSE IF actual_args < min_params
        THEN <<Issue("error", "missing_params", c.class_name, m, c.file_path, "signature", RequiredParamNames(sig.params))>>
        ELSE IF actual_args > max_params
        THEN <<Issue("warning", "too_many_params", c.class_name, m, c.file_path, "try_fix", <<>>)>>
        ELSE <<>>

\* the parameter check of _check_method_signature (lines 886-914)
CheckParams(c, m, sig) ==
    LET meth == c.methods[m]
        actual_args == IF meth.nargs > 0 THEN meth.nargs - 1 ELSE 0   \* args.args[1:]
        min_params == CountRequired(sig.params)
        max_params == Len(sig.params)
    IN  IF sig.params = VariableParams THEN <<>>
        ELSE IF actual_args < min_params
        THEN <<Issue("error", "missing_params", c.class_name, m, c.file_path, "signature", RequiredParamNames(sig.params))>>
        ELSE IF actual_args > max_params /\ ~meth.vararg /\ ~meth.kwarg
        THEN <<Issue("warning", "too_many_params", c.class_name, m, c.file_path, "try_fix", <<>>)>>
        ELSE <<>>

\* the return annotation check of _check_method_signature (lines 916-930)
CheckReturn(c, m, sig) ==
    LET meth == c.methods[m]
    IN  IF meth.returns # NoAnnotation
        THEN IF meth.returns # <<>> /\ ~CompareTypeAnnotations(meth.returns, sig.return_type)
             THEN <<Issue("warning", "return_mismatch", c.class_name, m, c.file_path,
                          "return_type", sig.return_type)>>
             ELSE <<>>
        ELSE <<Issue("warning", "missing_return", c.class_name, m, c.file_path, "none", sig.return_type)>>

\* _check_method_signature (lines 845-930)
CheckMethodSignature(c, m, sig) ==
    CheckAsync(c, m, sig) \o CheckParams(c, m, sig) \o CheckReturn(c, m, sig)

\* a plausible slip: the signature of a defined method is not looked at
ValidateRequiredMethodUnchecked(c, m) ==
    IF c.methods[m] = NoMethod
    THEN <<Issue("error", "missing_method", c.class_name, m, c.file_path, "async_def_stub", <<>>)>>
    ELSE CheckMethodImplementation(c, m)

\* the body of the loop over required methods (lines 761-777)
ValidateRequiredMethod(c, m) ==
    LET method_signatures == GetOr(COMPONENT_METHOD_SIGNATURES, GetBaseClass(c.base), <<>>)
    IN  IF c.methods[m] = NoMethod
        THEN <<Issue("error", "missing_method", c.class_name, m, c.file_path, "async_def_stub", <<>>)>>
        ELSE CheckMethodImplementation(c, m)
             \o (IF m \in DOMAIN method_signatures
                 THEN CheckMethodSignature(c, m, method_signatures[m])
                 ELSE <<>>)

\* _validate_required_methods (lines 734-777)
RECURSIVE ValidateRequiredMethods(_, _)
ValidateRequiredMethods(c, required_methods) ==
    IF required_methods = <<>> THEN <<>>
    ELSE ValidateRequiredMethod(c, Head(required_methods))
         \o ValidateRequiredMethods(c, Tail(required_methods))

\* the body of the loop over required fields (lines 550-561)
ValidateRequiredField(c, field) ==
    IF c.attrs[field] = "absent"
    THEN <<Issue("error", "missing_attr", c.class_name, field, c.file_path, "add_attr", <<>>)>>
    ELSE IF ~Truthy(ExtractValue(c.attrs[field]))
    THEN <<Issue("warning", "empty_attr", c.class_name, field, c.file_path, "none", <<>>)>>
    ELSE <<>>

RECURSIVE ValidateRequiredFields(_, _)
ValidateRequiredFields(c, required_fields) ==
    IF required_fields = <<>> THEN <<>>
    ELSE ValidateRequiredField(c, Head(required_fields))
         \o ValidateRequiredFields(c, Tail(required_fields))

\* a plausible slip: an unknown base class is skipped without an issue
UnknownBaseIssuesSkipped(c) == <<>>

\* the issue for a base class that is not in the table (lines 540-545)
UnknownBaseIssues(c) ==
    <<Issue("error", "unknown_base", c.class_name, GetBaseClass(c.base), c.file_path, "none", <<>>)>>

\* _validate_component (lines 482-566)
ValidateComponent(c) ==
    LET base_class == GetBaseClass(c.base)
        required_fields == GetOr(COMPONENT_REQUIRED_FIELDS, base_class, <<>>)
        required_methods == GetOr(COMPONENT_REQUIRED_METHODS, base_class, <<>>)
    IN  IF c.located = "unresolved"
        THEN <<Issue("warning", "file_not_found", c.class_name, "", <<"<plugin_name>", "plugin.py">>,
                     "none", <<>>)>>
        ELSE IF c.located = "parse_error"
        THEN <<Issue("error", "parse_failed", c.class_name, "", c.file_path, "none", <<>>)>>
        ELSE IF c.located = "class_missing"
        THEN <<Issue("error", "class_not_found", c.class_name, "", c.file_path, "classes", <<>>)>>
        ELSE IF required_fields = <<>>
        THEN UnknownBaseIssues(c)
        ELSE ValidateRequiredFields(c, required_fields)
             \o ValidateRequiredMethods(c, required_methods)

AllMethodNames ==
    {"execute", "from_platform_message", "get_bot_info", "get_contents", "register_endpoints"}

\* the attributes looked at in a class: the required ones of its base
FieldsOfBase(base) ==
    GetOr(COMPONENT_REQUIRED_FIELDS, GetBaseClass(base), <<"action_name", "action_description">>)

\* str.strip() of an annotation
RECURSIVE StripSpacesAround(_)
StripSpacesAround(s) ==
    IF s = <<>> THEN <<>>
    ELSE IF Head(s) = " " THEN StripSpacesAround(Tail(s))
    ELSE IF s[Len(s)] = " " THEN StripSpacesAround(SubSeq(s, 1, Len(s) - 1))
    ELSE s

(***************************************************************************)
(* Source files as libcst sees them                                        *)
(*                                                                         *)
(* A file is the sequence of its top-level classes; a class has a name, a  *)
(* first base, an optional leading docstring and the members of its body.  *)
(* A member keeps what the format-preserving tree keeps: lead is the       *)
(* number of blank and comment lines that precede it (leading_lines) and   *)
(* fmt tells whether the whitespace inside a def line is the default one.  *)
(***************************************************************************)
MaxLead == 1
MaxPasses == 2

Member(k, n, v, m, l, f) ==
    [kind |-> k, name |-> n, value |-> v, meth |-> m, lead |-> l, fmt |-> f]
AttrMember(n, v, l) == Member("attr", n, v, NoMethod, l, "default")
MethodMember(n, m, l, f) == Member("method", n, "", m, l, f)

ClassDef(n, b, d, members) == [name |-> n, base |-> b, doc |-> d, body |-> members]

\* a file of the tree: whether the path exists, and its classes
\* read_only: write_text on the path raises PermissionError
\* parses: ast.parse accepts the text; the classes of a file that does not
\* parse are the class statements a text search still finds in it
File(classes) == [exists |-> TRUE, classes |-> classes, read_only |-> FALSE, parses |-> TRUE]
NoFile == [exists |-> FALSE, classes |-> <<>>, read_only |-> FALSE, parses |-> TRUE]
ReadOnly(f) == [f EXCEPT !.read_only = TRUE]
Unparsable(f) == [f EXCEPT !.parses = FALSE]

PluginPy == <<"plugin.py">>
FooPy == <<"actions", "foo.py">>
FooInitPy == <<"actions", "foo", "__init__.py">>

AllPaths == {<<"my_action.py">>, <<"actions", "my_action.py">>}

Exists(tree, path) == path \in DOMAIN tree /\ tree[path].exists

\* the lines of a member, of a class and of a file, as module.code prints them
RECURSIVE LeadLines(_)
LeadLines(n) == IF n = 0 THEN <<>> ELSE LeadLines(n - 1) \o << <<"lead", n>> >>

StmtLines(stmts) == [i \in 1..Len(stmts) |-> <<"stmt", stmts[i]>>]

MemberLines(class_name, mb) ==
    LeadLines(mb.lead)
    \o (IF mb.kind = "attr" THEN << <<"attr", mb.name, mb.value>> >>
        ELSE << <<"def", class_name, mb.name, mb.meth.is_async, mb.fmt, mb.meth.nargs,
                  mb.meth.vararg, mb.meth.kwarg, mb.meth.returns>> >>
             \o StmtLines(mb.meth.stmts))

RECURSIVE MembersLines(_, _)
MembersLines(class_name, members) ==
    IF members = <<>> THEN <<>>
    ELSE MemberLines(class_name, Head(members)) \o MembersLines(class_name, Tail(members))

ClassLines(cl) ==
    << <<"class", cl.name, cl.base>> >>
    \o (IF cl.doc THEN << <<"docstring">> >> ELSE <<>>)
    \o MembersLines(cl.name, cl.body)

RECURSIVE RenderClasses(_)
RenderClasses(classes) ==
    IF classes = <<>> THEN <<>> ELSE ClassLines(Head(classes)) \o RenderClasses(Tail(classes))

\* the text of a file, line by line
Render(f) == RenderClasses(f.classes)

(***************************************************************************)
(* ComponentValidator on the plugin tree                                   *)
(***************************************************************************)
\* import_from.lstrip(".").replace(".", "/") + ".py" (lines 603-604)
ModulePath(imp) ==
    IF imp = ".my_action" THEN <<"my_action.py">>
    ELSE IF imp = ".actions.my_action" THEN <<"actions", "my_action.py">>
    ELSE IF imp = ".actions.foo" THEN FooPy
    ELSE <<>>

\* plugin_dir / module_path / "__init__.py" (line 610)
InitPath(imp) ==
    IF imp = ".my_action" THEN <<"my_action", "__init__.py">>
    ELSE IF imp = ".actions.my_action" THEN <<"actions", "my_action", "__init__.py">>
    ELSE IF imp = ".actions.foo" THEN FooInitPy
    ELSE <<>>

\* _find_class_definition (lines 628-643): index of the first class of that name
RECURSIVE FindClass(_, _, _)
FindClass(file, class_name, i) ==
    IF i > Len(file) THEN 0
    ELSE IF file[i].name = class_name THEN i
    ELSE FindClass(file, class_name, i + 1)

\* class_attributes[field] of _extract_class_attributes: the last assignment wins
RECURSIVE AttrOf(_, _)
AttrOf(members, field) ==
    IF members = <<>> THEN "absent"
    ELSE LET last == members[Len(members)]
         IN  IF last.kind = "attr" /\ last.name = field THEN last.value
             ELSE AttrOf(SubSeq(members, 1, Len(members) - 1), field)

\* defined_methods[name] (lines 751-754)
RECURSIVE MethodOf(_, _)
MethodOf(members, name) ==
    IF members = <<>> THEN NoMethod
    ELSE LET last == members[Len(members)]
         IN  IF last.kind = "method" /\ last.name = name THEN last.meth
             ELSE MethodOf(SubSeq(members, 1, Len(members) - 1), name)

\* the files re.search(rf"class\s+{class_name}\s*\(", content) finds
HasClassWithBases(file, class_name) ==
    \E i \in 1..Len(file) : file[i].name = class_name /\ file[i].base.kind # "none"

\* a plausible slip: the directory scan comes before the package file
ResolveComponentFileScanFirst(tree, imp, class_name) ==
    LET scanned == {p \in DOMAIN tree : /\ Exists(tree, p)
                                        /\ p[Len(p)] # "__init__.py"
                                        /\ HasClassWithBases(tree[p].classes, class_name)}
    IN  IF imp = "" THEN (IF Exists(tree, PluginPy) THEN {PluginPy} ELSE {})
        ELSE IF Exists(tree, ModulePath(imp)) THEN {ModulePath(imp)}
        ELSE IF scanned # {} THEN scanned
        ELSE IF Exists(tree, InitPath(imp)) THEN {InitPath(imp)}
        ELSE {}

\* _resolve_component_file (lines 572-626): the files it may return; the
\* order of rglob is the order of the directory listing
ResolveComponentFile(tree, imp, class_name) ==
    IF imp = "" THEN (IF Exists(tree, PluginPy) THEN {PluginPy} ELSE {})
    ELSE IF Exists(tree, ModulePath(imp)) THEN {ModulePath(imp)}
    ELSE IF Exists(tree, InitPath(imp)) THEN {InitPath(imp)}
    ELSE {p \in DOMAIN tree : /\ Exists(tree, p)
                              /\ p[Len(p)] # "__init__.py"
                              /\ HasClassWithBases(tree[p].classes, class_name)}

\* the component _validate_component works on, read from the file
ComponentAt(tree, path, class_name) ==
    LET file == tree[path].classes
        k == FindClass(file, class_name, 1)
    IN  IF ~tree[path].parses
        THEN [class_name |-> class_name, file_path |-> path, located |-> "parse_error",
              base |-> BaseExpr("none", ""), attrs |-> <<>>, methods |-> <<>>]
        ELSE IF k = 0
        THEN [class_name |-> class_name, file_path |-> path, located |-> "class_missing",
              base |-> BaseExpr("none", ""), attrs |-> <<>>, methods |-> <<>>]
        ELSE [class_name |-> class_name, file_path |-> path, located |-> "ok",
              base |-> file[k].base,
              attrs |-> [f \in Range(FieldsOfBase(file[k].base)) |-> AttrOf(file[k].body, f)],
              methods |-> [m \in AllMethodNames |-> MethodOf(file[k].body, m)]]

(***************************************************************************)
(* AutoFixValidator                                                        *)
(***************************************************************************)
FixRecord(k, path, c, s) == [fix |-> k, path |-> path, class_name |-> c, subject |-> s]

\* _resolve_file_path (lines 571-588); <<>> stands for None
ResolveFilePath(relative_path) ==
    IF relative_path = <<>> THEN <<>>
    ELSE IF Len(relative_path) > 1 THEN Tail(relative_path)
    ELSE relative_path

\* _get_default_value_for_field (lines 590-629), as the kind of the literal
NameFields ==
    {"name", "action_name", "command_name", "handler_name", "adapter_name", "prompt_name",
     "chatter_name", "component_name"}
DescFields ==
    {"description", "action_description", "command_description", "handler_description",
     "adapter_description", "chatter_description", "component_description"}

\* the field names of the plugin that hold "version" (line 623)
VersionFields == {"version", "plugin_version", "min_core_version"}

\* the literal _get_default_value_for_field returns
\*   "title_cased"              field_name.replace("_", " ").title()
\*   "description_placeholder"  the fixed description text
\*   "0.1.0", ""                these strings
DefaultLiteralForField(field_name) ==
    IF field_name \in NameFields THEN "title_cased"
    ELSE IF field_name \in DescFields THEN "description_placeholder"
    ELSE IF field_name \in VersionFields THEN "0.1.0"
    ELSE ""

\* the kind of that literal as the validator reads it back
DefaultValueForField(field_name) ==
    IF DefaultLiteralForField(field_name) = "" THEN "empty_str" ELSE "str"

\* the check `attribute already exists` of AddClassAttributeTransformer
ClassHasAttr(cl, attr_name) ==
    \E i \in 1..Len(cl.body) : cl.body[i].kind = "attr" /\ cl.body[i].name = attr_name

\* a plausible slip: the attribute is inserted without the existence check
AddAttrToClassUnchecked(cl, attr_name, attr_value) ==
    [cl EXCEPT !.body = <<AttrMember(attr_name, attr_value, 0)>> \o @]

\* AddClassAttributeTransformer.leave_ClassDef for a class of the target name
AddAttrToClass(cl, attr_name, attr_value) ==
    IF ClassHasAttr(cl, attr_name) THEN cl
    ELSE [cl EXCEPT !.body = <<AttrMember(attr_name, attr_value, 0)>> \o @]

\* module.visit(AddClassAttributeTransformer(...)) (lines 745-795)
AddClassAttributeTransformer(file, class_name, attr_name, attr_value) ==
    [i \in 1..Len(file) |->
        IF file[i].name = class_name
        THEN AddAttrToClass(file[i], attr_name, attr_value)
        ELSE file[i]]

\* file_path.write_text(modified.code)
WriteText(tree, path, content) == [tree EXCEPT ![path] = content]

\* write_text followed by fixes_applied.append; the write raises when the
\* file cannot be written, and the statements after it are not reached
WriteAndRecord(st, path, modified, rec) ==
    IF st.files[path].read_only THEN [st EXCEPT !.raised = TRUE]
    ELSE [st EXCEPT !.files = WriteText(@, path, File(modified)),
                    !.applied = Append(@, rec)]

\* a plausible slip: the handler records the failure and raises again
ExceptReraise(st, rec) ==
    IF st.raised THEN [st EXCEPT !.failed = Append(@, rec)] ELSE st

\* except Exception as e: self.fixes_failed.append(...)
Except(st, rec) ==
    IF st.raised THEN [st EXCEPT !.raised = FALSE, !.failed = Append(@, rec)] ELSE st

\* _add_class_attribute (lines 291-340) with a class name
AddClassAttributeTry(st, path, field_name, class_name, issue) ==
    LET file == st.files[path].classes
        modified == AddClassAttributeTransformer(file, class_name, field_name,
                                                 DefaultValueForField(field_name))
    IN  IF FindClass(file, class_name, 1) = 0
        THEN [st EXCEPT !.failed = Append(@, FixRecord("no_class", path, class_name, field_name))]
        ELSE IF modified # file
        THEN WriteAndRecord(st, path, modified, FixRecord("add_attr", path, class_name, field_name))
        ELSE [st EXCEPT !.failed = Append(@, FixRecord("add_attr", path, class_name, field_name))]

\* the except clause of the method: the failure is recorded
AddClassAttribute(st, path, field_name, class_name, issue) ==
    Except(AddClassAttributeTry(st, path, field_name, class_name, issue), FixRecord("add_attr", path, class_name, field_name))

\* _fix_missing_component_fields (lines 138-157)
RECURSIVE FixMissingComponentFields(_, _)
FixMissingComponentFields(st, all_issues) ==
    IF all_issues = <<>> \/ st.raised THEN st
    ELSE LET issue == Head(all_issues)
             file_path == ResolveFilePath(issue.file_path)
             at == [st EXCEPT !.visited = @ + 1]
             next == IF issue.kind = "missing_attr" /\ file_path # <<>>
                        /\ Exists(at.files, file_path)
                     THEN AddClassAttribute(at, file_path, issue.subject, issue.class_name, issue)
                     ELSE at
         IN  FixMissingComponentFields(
                Except(next, FixRecord("fields", file_path, issue.class_name, issue.subject)),
                Tail(all_issues))

\* _generate_method_template (lines 631-664): the method the template defines,
\* or NoMethod when the template is not a complete method definition
GenerateMethodTemplate(method_name, suggestion) ==
    IF suggestion = "async_def_stub"
    THEN NoMethod   \* the line "async def <name>(self, ...):" of the suggestion
    ELSE IF method_name = "execute"
    THEN Method(TRUE, 1, FALSE, FALSE, NoAnnotation, <<"docstring", "raise_bare">>)
    ELSE IF method_name = "go_activate"
    THEN Method(TRUE, 2, FALSE, FALSE, NoAnnotation, <<"docstring", "other">>)
    ELSE IF method_name = "from_platform_message"
    THEN Method(TRUE, 2, FALSE, FALSE, NoAnnotation, <<"docstring", "raise_bare">>)
    ELSE IF method_name = "register_endpoints"
    THEN Method(FALSE, 1, FALSE, FALSE, NoAnnotation, <<"docstring", "pass">>)
    ELSE Method(FALSE, 1, FALSE, FALSE, NoAnnotation, <<"docstring", "raise_bare">>)

ClassHasMethod(cl, method_name) ==
    \E i \in 1..Len(cl.body) : cl.body[i].kind = "method" /\ cl.body[i].name = method_name

\* AddMethodTransformer.leave_ClassDef for a class of the target name
AddMethodToClassNode(cl, method_name, template) ==
    IF ClassHasMethod(cl, method_name) THEN cl
    ELSE IF template = NoMethod THEN cl        \* cst.parse_module raises
    ELSE [cl EXCEPT !.body = Append(@, MethodMember(method_name, template, 0, "default"))]

\* module.visit(AddMethodTransformer(...)) (lines 798-838)
AddMethodTransformer(file, class_name, method_name, template) ==
    [i \in 1..Len(file) |->
        IF file[i].name = class_name
        THEN AddMethodToClassNode(file[i], method_name, template)
        ELSE file[i]]

\* _add_method_to_class (lines 342-368)
AddMethodToClassTry(st, path, class_name, method_name, issue) ==
    LET file == st.files[path].classes
        modified == AddMethodTransformer(file, class_name, method_name,
                                         GenerateMethodTemplate(method_name, issue.suggestion))
    IN  IF modified # file
        THEN WriteAndRecord(st, path, modified, FixRecord("add_method", path, class_name, method_name))
        ELSE [st EXCEPT !.failed = Append(@, FixRecord("add_method", path, class_name, method_name))]

\* the except clause of the method: the failure is recorded
AddMethodToClass(st, path, class_name, method_name, issue) ==
    Except(AddMethodToClassTry(st, path, class_name, method_name, issue), FixRecord("add_method", path, class_name, method_name))

\* _fix_missing_methods (lines 159-178)
RECURSIVE FixMissingMethods(_, _)
FixMissingMethods(st, all_issues) ==
    IF all_issues = <<>> \/ st.raised THEN st
    ELSE LET issue == Head(all_issues)
             file_path == ResolveFilePath(issue.file_path)
             at == [st EXCEPT !.visited = @ + 1]
             next == IF issue.kind = "missing_method" /\ file_path # <<>>
                        /\ Exists(at.files, file_path)
                     THEN AddMethodToClass(at, file_path, issue.class_name, issue.subject, issue)
                     ELSE at
         IN  FixMissingMethods(
                Except(next, FixRecord("methods", file_path, issue.class_name, issue.subject)),
                Tail(all_issues))

\* the FunctionDef built by FixMethodAsyncTransformer (lines 872-879): name,
\* params, body, decorators and returns are passed on, every other field of
\* the node takes its default
MakeAsync(mb) == [mb EXCEPT !.meth.is_async = TRUE, !.lead = 0, !.fmt = "default"]

\* FixMethodAsyncTransformer.leave_FunctionDef (lines 862-886)
FixAsyncOfMember(mb, method_name, should_be_async) ==
    IF mb.kind # "method" \/ mb.name # method_name THEN mb
    ELSE IF should_be_async THEN MakeAsync(mb)
    ELSE [mb EXCEPT !.meth.is_async = FALSE]

FixMethodAsyncTransformer(file, class_name, method_name, should_be_async) ==
    [i \in 1..Len(file) |->
        IF file[i].name = class_name
        THEN [file[i] EXCEPT !.body =
                [k \in 1..Len(@) |-> FixAsyncOfMember(@[k], method_name, should_be_async)]]
        ELSE file[i]]

\* transformer.modified of FixMethodAsyncTransformer
AsyncFixModified(file, class_name, method_name, should_be_async) ==
    \E i \in 1..Len(file) :
        /\ file[i].name = class_name
        /\ \E k \in 1..Len(file[i].body) :
                /\ file[i].body[k].kind = "method"
                /\ file[i].body[k].name = method_name
                /\ (should_be_async \/ file[i].body[k].meth.is_async)

\* _fix_method_async (lines 370-397)
FixMethodAsyncTry(st, path, class_name, method_name, should_be_async, issue) ==
    LET file == st.files[path].classes
        modified == FixMethodAsyncTransformer(file, class_name, method_name, should_be_async)
    IN  IF AsyncFixModified(file, class_name, method_name, should_be_async)
        THEN WriteAndRecord(st, path, modified, FixRecord("fix_async", path, class_name, method_name))
        ELSE [st EXCEPT !.failed = Append(@, FixRecord("fix_async", path, class_name, method_name))]

\* the except clause of the method: the failure is recorded
FixMethodAsync(st, path, class_name, method_name, should_be_async, issue) ==
    Except(FixMethodAsyncTry(st, path, class_name, method_name, should_be_async, issue), FixRecord("fix_async", path, class_name, method_name))

TargetMethodExists(file, class_name, method_name) ==
    \E i \in 1..Len(file) : file[i].name = class_name /\ ClassHasMethod(file[i], method_name)

\* FixMethodParametersTransformer (lines 927-999): self followed by the names
FixMethodParametersTransformer(file, class_name, method_name, names) ==
    [i \in 1..Len(file) |->
        IF file[i].name = class_name
        THEN [file[i] EXCEPT !.body =
                [k \in 1..Len(@) |->
                    IF @[k].kind = "method" /\ @[k].name = method_name
                    THEN [@[k] EXCEPT !.meth.nargs = 1 + Len(names)]
                    ELSE @[k]]]
        ELSE file[i]]

\* _fix_method_parameters (lines 399-438)
FixMethodParametersTry(st, path, class_name, method_name, issue) ==
    LET file == st.files[path].classes
        modified == FixMethodParametersTransformer(file, class_name, method_name, issue.arg)
    IN  IF issue.suggestion # "signature" THEN st      \* no signature in the suggestion
        ELSE IF TargetMethodExists(file, class_name, method_name)
        THEN WriteAndRecord(st, path, modified, FixRecord("fix_params", path, class_name, method_name))
        ELSE [st EXCEPT !.failed = Append(@, FixRecord("fix_params", path, class_name, method_name))]

\* the except clause of the method: the failure is recorded
FixMethodParameters(st, path, class_name, method_name, issue) ==
    Except(FixMethodParametersTry(st, path, class_name, method_name, issue), FixRecord("fix_params", path, class_name, method_name))

\* FixReturnTypeTransformer (lines 889-924)
FixReturnTypeTransformer(file, class_name, method_name, return_type) ==
    [i \in 1..Len(file) |->
        IF file[i].name = class_name
        THEN [file[i] EXCEPT !.body =
                [k \in 1..Len(@) |->
                    IF @[k].kind = "method" /\ @[k].name = method_name
                    THEN [@[k] EXCEPT !.meth.returns = return_type]
                    ELSE @[k]]]
        ELSE file[i]]

\* _fix_method_return_type (lines 541-569)
FixMethodReturnTypeTry(st, path, class_name, method_name, expected_type, issue) ==
    LET file == st.files[path].classes
        modified == FixReturnTypeTransformer(file, class_name, method_name, expected_type)
    IN  IF TargetMethodExists(file, class_name, method_name)
        THEN WriteAndRecord(st, path, modified, FixRecord("fix_return", path, class_name, method_name))
        ELSE [st EXCEPT !.failed = Append(@, FixRecord("fix_return", path, class_name, method_name))]

\* the except clause of the method: the failure is recorded
FixMethodReturnType(st, path, class_name, method_name, expected_type, issue) ==
    Except(FixMethodReturnTypeTry(st, path, class_name, method_name, expected_type, issue), FixRecord("fix_return", path, class_name, method_name))

\* the body of the loop of _fix_method_signatures (lines 182-251)
FixMethodSignature(st, issue) ==
    LET file_path == ResolveFilePath(issue.file_path)
        present == file_path # <<>> /\ Exists(st.files, file_path)
    IN  IF issue.kind \in {"should_be_async", "should_not_be_async"}
        THEN IF present
             THEN FixMethodAsync(st, file_path, issue.class_name, issue.subject,
                                 issue.kind = "should_be_async", issue)
             ELSE st
        ELSE IF issue.kind \in {"missing_params", "too_many_params"}
        THEN IF present /\ issue.suggestion # "none"
             THEN FixMethodParameters(st, file_path, issue.class_name, issue.subject, issue)
             ELSE st
        ELSE IF issue.kind = "get_components_no_return_type"     \* plugin_match (lines 232-236)
        THEN IF Exists(st.files, PluginPy)
             THEN FixMethodReturnType(st, PluginPy, issue.class_name, issue.subject,
                                      <<"list", "[", "type", "]">>, issue)
             ELSE st
        ELSE IF issue.kind = "missing_return"
        THEN IF present
             THEN FixMethodReturnType(st, file_path, issue.class_name, issue.subject,
                                      StripSpacesAround(issue.arg), issue)
             ELSE st
        ELSE st

RECURSIVE FixMethodSignatures(_, _)
FixMethodSignatures(st, all_issues) ==
    IF all_issues = <<>> \/ st.raised THEN st
    ELSE LET issue == Head(all_issues)
             next == FixMethodSignature([st EXCEPT !.visited = @ + 1], issue)
         IN  FixMethodSignatures(
                Except(next, FixRecord("signatures", ResolveFilePath(issue.file_path),
                                       issue.class_name, issue.subject)),
                Tail(all_issues))

\* _get_default_value_for_plugin_attribute (lines 521-539), as the kind of
\* the literal: the directory name, a fixed text, or '""'
DefaultValueForPluginAttribute(attr_name) ==
    IF attr_name \in {"plugin_name", "plugin_description", "plugin_version", "plugin_author"}
    THEN "str"
    ELSE "empty_str"

\* the target class of _add_class_attribute when class_name is None (lines
\* 312-317): the first class statement ast.walk meets; 0 when there is none
TargetClass(file) == IF file = <<>> THEN 0 ELSE 1

\* _add_class_attribute (lines 291-340) with class_name=None and a default
AddAnyClassAttributeTry(st, path, attr_name, default_value) ==
    LET file == st.files[path].classes
        k == TargetClass(file)
    IN  IF ~st.files[path].parses THEN [st EXCEPT !.raised = TRUE]
        ELSE IF k = 0
        THEN [st EXCEPT !.failed = Append(@, FixRecord("no_class", path, "", attr_name))]
        ELSE LET modified == AddClassAttributeTransformer(file, file[k].name, attr_name,
                                                          default_value)
             IN  IF modified # file
                 THEN WriteAndRecord(st, path, modified,
                                     FixRecord("add_attr", path, file[k].name, attr_name))
                 ELSE [st EXCEPT !.failed = Append(@, FixRecord("add_attr", path, file[k].name,
                                                                attr_name))]

\* _add_plugin_class_attribute (lines 500-519)
AddPluginClassAttribute(st, path, attr_name) ==
    Except(Except(AddAnyClassAttributeTry(st, path, attr_name,
                                          DefaultValueForPluginAttribute(attr_name)),
                  FixRecord("add_attr", path, "", attr_name)),
           FixRecord("plugin_attribute", path, "", attr_name))

\* the message names plugin_name and has "缺少" (lines 118-123)
IsPluginAttributeIssue(issue) == issue.kind = "missing_plugin_name"

\* _fix_missing_plugin_attributes (lines 114-136)
RECURSIVE FixMissingPluginAttributes(_, _)
FixMissingPluginAttributes(st, all_issues) ==
    IF all_issues = <<>> \/ st.raised THEN st
    ELSE LET issue == Head(all_issues)
             next == IF IsPluginAttributeIssue(issue) /\ Exists(st.files, PluginPy)
                     THEN AddPluginClassAttribute(st, PluginPy, issue.subject)
                     ELSE st
         IN  FixMissingPluginAttributes(
                Except(next, FixRecord("plugin_attributes", PluginPy, "", issue.subject)),
                Tail(all_issues))

\* the issues fix_issues collects (lines 68-72)
CollectIssues(results) ==
    SelectSeq(results, LAMBDA i : i.level = "error" \/ i.level = "warning")

\* fix_issues (lines 52-86); the manifest, decorator and style passes match
\* none of the issues of ComponentValidator
FixIssuesOn(st, results) ==
    LET all_issues == CollectIssues(results)
    IN  IF all_issues = <<>> THEN st
        ELSE FixMethodSignatures(
                FixMissingMethods(
                    FixMissingComponentFields(
                        FixMissingPluginAttributes(st, all_issues), all_issues),
                    all_issues), all_issues)

(***************************************************************************)
(* MetadataValidator                                                       *)
(*                                                                         *)
(* A JSON value is modelled by its kind.  The content of manifest.json is  *)
(* a record: top is the kind of the top-level value ("no_file" and         *)
(* "invalid_json" for a file that is absent or does not parse), fields     *)
(* gives the value of each key of a top-level object ("absent": the key is *)
(* not there), and holds is the set of key names that a top-level array    *)
(* has among its elements, or a top-level string as substrings.            *)
(***************************************************************************)
REQUIRED_FIELDS ==
    <<"name", "version", "description", "author", "dependencies", "entry_point">>

RECOMMENDED_FIELDS == <<"min_core_version", "include">>

ManifestKeys == Range(REQUIRED_FIELDS) \cup Range(RECOMMENDED_FIELDS)

\* kinds of JSON values
\*   null false zero empty_str empty_list empty_obj    the falsy values
\*   true number str list obj                          other values
\*   semver         a string that starts with digits.digits.digits
\*   path           a string naming an existing file of the plugin
\*   dir_name       the name of the plugin directory
\*   deps           {"plugins": [...], "components": [...]}
\*   deps_bad       an object whose "plugins" and "components" are not arrays
\*   include_ok     an array of objects with component_type and component_name
\*   include_bad    an array that holds a value that is not an object
JsonFalsy == {"null", "false", "zero", "empty_str", "empty_list", "empty_obj"}
JsonStrings == {"empty_str", "str", "semver", "path", "dir_name"}
JsonObjects == {"empty_obj", "obj", "deps", "deps_bad"}
JsonArrays == {"empty_list", "list", "include_ok", "include_bad"}

\* bool(value)
JsonTruthy(v) == v \notin JsonFalsy

MetaIssue(l, k, s) == [level |-> l, kind |-> k, subject |-> s]

MetaResult(o, i) == [outcome |-> o, issues |-> i]

\* `field in manifest_data`: "raises" when the operand supports no membership test
HasKey(m, field) ==
    IF m.top = "object" THEN IF m.fields[field] # "absent" THEN "yes" ELSE "no"
    ELSE IF m.top \in {"array", "string"} THEN IF field \in m.holds THEN "yes" ELSE "no"
    ELSE "raises"                       \* number, null, true, false: TypeError

\* `field not in manifest_data or not manifest_data[field]` (lines 61, 77):
\* subscripting an array or a string with a key raises TypeError
FieldMissing(m, field) ==
    IF HasKey(m, field) = "raises" THEN "raises"
    ELSE IF HasKey(m, field) = "no" THEN "yes"
    ELSE IF m.top # "object" THEN "raises"
    ELSE IF JsonTruthy(m.fields[field]) THEN "no" ELSE "yes"

\* the fields of the list the loop finds missing
MissingOf(m, fields) == SelectSeq(fields, LAMBDA f : FieldMissing(m, f) = "yes")

LoopRaises(m, fields) == \E i \in 1..Len(fields) : FieldMissing(m, fields[i]) = "raises"

\* lines 58-72
RequiredFieldIssues(m) ==
    LET missing_required == MissingOf(m, REQUIRED_FIELDS)
    IN  IF missing_required # <<>>
        THEN [i \in 1..Len(missing_required) |->
                MetaIssue("error", "missing_required", missing_required[i])]
        ELSE <<MetaIssue("info", "all_required", "")>>

\* lines 74-86
RecommendedFieldIssues(m) ==
    IF MissingOf(m, RECOMMENDED_FIELDS) # <<>>
    THEN <<MetaIssue("warning", "missing_recommended", "")>>
    ELSE <<>>

\* lines 88-108
DependenciesIssues(m) ==
    IF HasKey(m, "dependencies") # "yes" THEN <<>>
    ELSE LET deps == m.fields["dependencies"]
         IN  IF deps \notin JsonObjects
             THEN <<MetaIssue("error", "not_an_object", "dependencies")>>
             ELSE IF deps = "deps_bad"
             THEN <<MetaIssue("error", "not_an_array", "dependencies.plugins"),
                    MetaIssue("error", "not_an_array", "dependencies.components")>>
             ELSE <<>>

\* lines 110-146
IncludeIssues(m) ==
    IF HasKey(m, "include") # "yes" THEN <<>>
    ELSE LET include_list == m.fields["include"]
         IN  IF include_list \notin JsonArrays
             THEN <<MetaIssue("error", "not_an_array", "include")>>
             ELSE IF include_list = "include_bad"
             THEN <<MetaIssue("warning", "not_an_object", "include[0]")>>
             ELSE <<>>

\* lines 148-156: plugin_path / manifest_data["entry_point"] raises TypeError
\* for a value that is not a string
EntryPointRaises(m) ==
    HasKey(m, "entry_point") = "yes" /\ m.fields["entry_point"] \notin JsonStrings

EntryPointIssues(m) ==
    IF HasKey(m, "entry_point") # "yes" THEN <<>>
    ELSE IF m.fields["entry_point"] = "path" THEN <<>>
    ELSE <<MetaIssue("warning", "entry_point_not_found", "entry_point")>>

\* lines 158-167: re.match(r'^\d+\.\d+\.\d+', str(version))
VersionIssues(m) ==
    IF HasKey(m, "version") # "yes" THEN <<>>
    ELSE IF m.fields["version"] = "semver" THEN <<>>
    ELSE <<MetaIssue("warning", "version_format", "version")>>

\* MetadataValidator.validate (lines 22-169)
MetadataValidate(m) ==
    LET found == <<MetaIssue("info", "found", "")>>
        upto_required == found \o RequiredFieldIssues(m)
        upto_include == upto_required \o RecommendedFieldIssues(m)
                        \o DependenciesIssues(m) \o IncludeIssues(m)
    IN  IF m.top = "no_file"
        THEN MetaResult("returned", <<MetaIssue("error", "no_manifest", "")>>)
        ELSE IF m.top = "invalid_json"
        THEN MetaResult("returned", <<MetaIssue("error", "json_syntax", "")>>)
        ELSE IF LoopRaises(m, REQUIRED_FIELDS)
        THEN MetaResult("raised", found)
        ELSE IF LoopRaises(m, RECOMMENDED_FIELDS)
        THEN MetaResult("raised", upto_required)
        ELSE IF EntryPointRaises(m)
        THEN MetaResult("raised", upto_include)
        ELSE MetaResult("returned", upto_include \o EntryPointIssues(m) \o VersionIssues(m))

\* ValidationResult.success: no Error was added
Success(result) == \A i \in 1..Len(result.issues) : result.issues[i].level # "error"

(***************************************************************************)
(* AutoFixValidator: the manifest fix                                      *)
(***************************************************************************)
\* the plugin directory: whether it holds plugin.py, whether files can be
\* written in it
PluginDir(h, w) == [has_plugin_py |-> h, writable |-> w]

ManifestJson == <<"manifest.json">>

\* a plausible slip: the dependencies object is written empty
ManifestContentEmptyDeps(dir) ==
    [top |-> "object",
     fields |-> [k \in ManifestKeys |->
                    IF k = "name" THEN "dir_name"
                    ELSE IF k \in {"version", "min_core_version"} THEN "semver"
                    ELSE IF k \in {"description", "author"} THEN "str"
                    ELSE IF k = "dependencies" THEN "empty_obj"
                    ELSE IF k = "include" THEN "empty_list"
                    ELSE IF dir.has_plugin_py THEN "path" ELSE "str"],
     holds |-> {}]

\* the manifest dict of _create_manifest_file (lines 457-466)
ManifestContent(dir) ==
    [top |-> "object",
     fields |-> [k \in ManifestKeys |->
                    IF k = "name" THEN "dir_name"                       \* plugin_path.name
                    ELSE IF k \in {"version", "min_core_version"} THEN "semver"   \* "1.0.0"
                    ELSE IF k \in {"description", "author"} THEN "str"
                    ELSE IF k = "dependencies" THEN "deps"
                    ELSE IF k = "include" THEN "empty_list"
                    ELSE IF dir.has_plugin_py THEN "path" ELSE "str"],    \* "plugin.py"
     holds |-> {}]

\* _create_manifest_file (lines 440-472) on the state
\* [manifest, applied, failed] of a fix run
CreateManifestFile(st, dir) ==
    IF st.manifest.top # "no_file" THEN st
    ELSE IF ~dir.writable
    THEN [st EXCEPT !.failed = Append(@, FixRecord("create_manifest", ManifestJson, "", ""))]
    ELSE [st EXCEPT !.manifest = ManifestContent(dir),
                    !.applied = Append(@, FixRecord("create_manifest", ManifestJson, "", ""))]

\* "manifest.json" in issue.message and "不存在" in issue.message (line 91)
IsMissingManifestIssue(issue) == issue.kind = "no_manifest"

\* _fix_missing_manifest (lines 88-98)
RECURSIVE FixMissingManifest(_, _, _)
FixMissingManifest(st, dir, all_issues) ==
    IF all_issues = <<>> THEN st
    ELSE FixMissingManifest(IF IsMissingManifestIssue(Head(all_issues))
                            THEN CreateManifestFile(st, dir) ELSE st,
                            dir, Tail(all_issues))

(***************************************************************************)
(* Imports of the entry file                                               *)
(*                                                                         *)
(* A module name is the sequence of its pieces; a piece is a dot or a run  *)
(* of identifier characters, and "myplugin", "_utils" are such runs, so    *)
(* that <<"myplugin", "_utils">> is the one identifier myplugin_utils.     *)
(***************************************************************************)
MaxImports == 2
MaxLevel == 2

PluginName == <<"myplugin">>

\* str.startswith
StartsWith(s, prefix) == Len(s) >= Len(prefix) /\ SubSeq(s, 1, Len(prefix)) = prefix

\* s[n:]
DropFirst(s, n) == SubSeq(s, n + 1, Len(s))

\* "." * level
RECURSIVE Dots(_)
Dots(level) == IF level = 0 THEN <<>> ELSE <<".">> \o Dots(level - 1)

\* node.module is None
NoModule == <<>>

\* an ast.ImportFrom with one alias
ImportFrom(l, m, n) == [level |-> l, module |-> m, name |-> n]

\* the entries one ImportFrom adds to the map (lines 464-474); <<>>: none
ImportedAs(node) ==
    IF node.level > 0
    THEN Dots(node.level) \o node.module
    ELSE IF node.module # NoModule /\ StartsWith(node.module, PluginName)
    THEN <<".">> \o DropFirst(node.module, Len(PluginName))
    ELSE <<>>

\* a name that no import of the plugin brought in
NotImported == <<"<not imported>">>

\* imports[alias.name] = relative_module for the nodes in the order of ast.walk
RECURSIVE CollectImports(_, _)
CollectImports(nodes, names) ==
    IF nodes = <<>> THEN [n \in names |-> NotImported]
    ELSE LET front == SubSeq(nodes, 1, Len(nodes) - 1)
             node == nodes[Len(nodes)]
             before == CollectImports(front, names)
         IN  IF ImportedAs(node) = <<>> THEN before
             ELSE [before EXCEPT ![node.name] = ImportedAs(node)]

(***************************************************************************)
(* ComponentValidator.validate: the plugin class, discovery, the components*)
(***************************************************************************)
\* plugin.py as validate reads it
\*   exists          the file is there
\*   parses          it is valid Python
\*   has_class       a class with the base BasePlugin is defined
\*   plugin_name     the class attribute: "absent", "empty" or "ok"
\*   get_components  "absent", "def", "async_def" (of the plugin class) or
\*                   "elsewhere" (a def of that name outside the plugin class)
\*   nargs           len(node.args.args) of get_components: its positional
\*                   parameters, the receiver included
\*   returns         get_components has a return annotation
\*   classes         the component classes defined in the file
\*   class_first     the plugin class is the first class statement of the file
PluginFile(ex, p, c, pn, gc, n, r, cl) ==
    [exists |-> ex, parses |-> p, has_class |-> c, plugin_name |-> pn,
     get_components |-> gc, nargs |-> n, returns |-> r, classes |-> cl,
     class_first |-> TRUE]

\* the same plugin.py with the plugin class after the component classes
PluginClassLast(pf) == [pf EXCEPT !.class_first = FALSE]

\* the class statement of the plugin class
PluginClassDef(pf) ==
    ClassDef("MyPlugin", BaseExpr("name", "BasePlugin"), TRUE,
             (IF pf.plugin_name = "absent" THEN <<>>
              ELSE <<AttrMember("plugin_name",
                                IF pf.plugin_name = "empty" THEN "empty_str" ELSE "str", 0)>>)
             \o (IF pf.get_components \in {"def", "async_def"}
                 THEN <<MethodMember("get_components",
                                     Method(pf.get_components = "async_def", pf.nargs, FALSE, FALSE,
                                            IF pf.returns THEN <<"list", "[", "type", "]">>
                                                          ELSE NoAnnotation,
                                            <<"other">>),
                                     1, "default")>>
                 ELSE <<>>))

\* the class statements of plugin.py, in the order of the file
PluginPyContent(pf) ==
    IF ~pf.has_class THEN pf.classes
    ELSE IF pf.class_first THEN <<PluginClassDef(pf)>> \o pf.classes
    ELSE pf.classes \o <<PluginClassDef(pf)>>

\* the plugin tree with plugin.py as the fixes read and write it
PluginTree(pf, tree) ==
    [p \in DOMAIN tree \cup {PluginPy} |->
        IF p = PluginPy
        THEN (IF ~pf.exists THEN NoFile
              ELSE IF pf.parses THEN File(PluginPyContent(pf))
              ELSE Unparsable(File(PluginPyContent(pf))))
        ELSE tree[p]]

\* plugin.py as validate reads it after the fixes have written it
ReadPluginFile(pf, file) ==
    LET k == FindClass(file.classes, "MyPlugin", 1)
        others == SelectSeq(file.classes, LAMBDA c : c.name # "MyPlugin")
    IN  IF k = 0 THEN [pf EXCEPT !.classes = others]
        ELSE LET name == AttrOf(file.classes[k].body, "plugin_name")
                 meth == MethodOf(file.classes[k].body, "get_components")
             IN  [pf EXCEPT !.classes = others,
                            !.plugin_name = IF name = "absent" THEN "absent"
                                            ELSE IF name = "empty_str" THEN "empty"
                                            ELSE "ok",
                            !.returns = IF meth = NoMethod THEN @
                                        ELSE meth.returns # NoAnnotation]


\* the attribute checks of _validate_plugin_class (lines 246-260)
PluginNameIssues(pf) ==
    IF pf.plugin_name = "absent"
    THEN <<Issue("error", "missing_plugin_name", "MyPlugin", "plugin_name", PluginPy, "fix", <<>>)>>
    ELSE IF pf.plugin_name = "empty"
    THEN <<Issue("error", "empty_plugin_name", "MyPlugin", "plugin_name", PluginPy, "none", <<>>)>>
    ELSE <<>>

\* the other reading: one parameter is wanted besides the receiver
GetComponentsIssuesOneBesidesReceiver(pf) ==
    IF pf.get_components \in {"def", "async_def"}
    THEN (IF pf.nargs - 1 # 1
          THEN <<Issue("warning", "get_components_signature", "MyPlugin", "get_components",
                       PluginPy, "none", <<>>)>>
          ELSE <<>>)
         \o (IF ~pf.returns
             THEN <<Issue("warning", "get_components_no_return_type", "MyPlugin",
                          "get_components", PluginPy, "none", <<>>)>>
             ELSE <<>>)
    ELSE <<Issue("error", "missing_get_components", "MyPlugin", "get_components", PluginPy,
                 "fix", <<>>)>>

\* the get_components checks of _validate_plugin_class (lines 277-302)
GetComponentsIssues(pf) ==
    IF pf.get_components \in {"def", "async_def"}
    THEN (IF pf.nargs # 1
          THEN <<Issue("warning", "get_components_signature", "MyPlugin", "get_components",
                       PluginPy, "none", <<>>)>>
          ELSE <<>>)
         \o (IF ~pf.returns
             THEN <<Issue("warning", "get_components_no_return_type", "MyPlugin",
                          "get_components", PluginPy, "none", <<>>)>>
             ELSE <<>>)
    ELSE <<Issue("error", "missing_get_components", "MyPlugin", "get_components", PluginPy,
                 "fix", <<>>)>>

ValidatePluginClass(pf) ==
    IF ~pf.parses
    THEN <<Issue("error", "plugin_parse_failed", "", "", <<>>, "none", <<>>)>>
    ELSE IF ~pf.has_class
    THEN <<Issue("warning", "no_plugin_class", "", "", PluginPy, "suggestion", <<>>)>>
    ELSE PluginNameIssues(pf) \o GetComponentsIssues(pf)

\* ast.walk meets an ast.FunctionDef named get_components (lines 342-343);
\* an async def is an ast.AsyncFunctionDef
FindsGetComponents(pf) == pf.get_components \in {"def", "elsewhere"}

\* _extract_components_from_plugin: the components and the issues it adds
ExtractComponentsFromPlugin(pf, stmts) ==
    IF ~pf.parses
    THEN [components |-> <<>>,
          issues |-> <<Issue("error", "plugin_parse_failed", "", "", <<>>, "none", <<>>)>>]
    ELSE [components |-> IF FindsGetComponents(pf)
                         THEN ExtractComponentsFromGetComponents(stmts) ELSE <<>>,
          issues |-> <<>>]

NoComponentsWarning ==
    Issue("warning", "no_components", "", "", PluginPy, "suggestion", <<>>)

\* the plugin tree with plugin.py in it
WithPluginPy(pf, tree) ==
    [p \in DOMAIN tree \cup {PluginPy} |-> IF p = PluginPy THEN File(pf.classes) ELSE tree[p]]

\* the component _validate_component reads for a discovered name, for each
\* file _resolve_component_file may return
ComponentOfInfo(tree, info) ==
    LET found == ResolveComponentFile(tree, info.import_from, info.class_name)
    IN  IF found = {}
        THEN {[class_name |-> info.class_name, file_path |-> <<>>, located |-> "unresolved",
               base |-> BaseExpr("none", ""), attrs |-> <<>>, methods |-> <<>>]}
        ELSE {ComponentAt(tree, path, info.class_name) : path \in found}

\* a plausible slip: a component file that fails to parse ends the loop
RECURSIVE ValidateComponentsUntilParseFailure(_, _)
ValidateComponentsUntilParseFailure(tree, infos) ==
    IF infos = <<>> THEN {<<>>}
    ELSE {ValidateComponent(c) \o rest :
            c \in ComponentOfInfo(tree, Head(infos)),
            rest \in IF \E d \in ComponentOfInfo(tree, Head(infos)) : d.located = "parse_error"
                     THEN {<<>>}
                     ELSE ValidateComponentsUntilParseFailure(tree, Tail(infos))}

\* the loop of lines 202-203; one outcome for each choice of component files
RECURSIVE ValidateComponents(_, _)
ValidateComponents(tree, infos) ==
    IF infos = <<>> THEN {<<>>}
    ELSE {ValidateComponent(c) \o rest :
            c \in ComponentOfInfo(tree, Head(infos)),
            rest \in ValidateComponents(tree, Tail(infos))}

\* a plausible slip: components that cannot be discovered are an Error
ValidateNoComponentsIsError(pf, stmts, tree) ==
    IF ~pf.exists
    THEN {<<Issue("error", "plugin_file_missing", "", "", <<>>, "none", <<>>)>>}
    ELSE LET class_issues == ValidatePluginClass(pf)
             extracted == ExtractComponentsFromPlugin(pf, stmts)
         IN  IF extracted.components = <<>>
             THEN {class_issues \o extracted.issues
                   \o <<[NoComponentsWarning EXCEPT !.level = "error"]>>}
             ELSE {class_issues \o extracted.issues \o found :
                     found \in ValidateComponents(WithPluginPy(pf, tree), extracted.components)}

\* ComponentValidator.validate (lines 180-205): the results it may return
ValidatePlugin(pf, stmts, tree) ==
    IF ~pf.exists
    THEN {<<Issue("error", "plugin_file_missing", "", "", <<>>, "none", <<>>)>>}
    ELSE LET class_issues == ValidatePluginClass(pf)
             extracted == ExtractComponentsFromPlugin(pf, stmts)
         IN  IF extracted.components = <<>>
             THEN {class_issues \o extracted.issues \o <<NoComponentsWarning>>}
             ELSE {class_issues \o extracted.issues \o found :
                     found \in ValidateComponents(WithPluginPy(pf, tree), extracted.components)}

(***************************************************************************)
(* ConfigValidator                                                         *)
(***************************************************************************)
MaxConfigs == 2

\* plugin.py and the tree as ConfigValidator reads them
\*   form   how the plugin class declares configs
\*            "no_plugin_py"  there is no plugin.py
\*            "none"          no configs attribute
\*            "assign"        configs = [A, B]
\*            "ann_assign"    configs: list[type] = [A, B]
\*            "not_list"      configs = "A"
\*            "name_ref"      configs = CONFIGS
\*   names  the names in the list literal
\*   where  for each name, where its class is defined
\*            "plugin_py"  in plugin.py
\*            "imported"   in the module a relative import of plugin.py names
\*            "tree"       in another .py file of the plugin tree
\*            "init_only"  in the __init__.py of a package of the plugin
\*            "nowhere"    in no file of the plugin tree
\*   shape  for each name, the class as it is defined
ConfigSource(f, n, w, sh) == [form |-> f, names |-> n, where |-> w, shape |-> sh]

\* a config class: whether it derives from BaseConfig, whether it has a
\* config_name, and for each nested SectionBase class whether it has fields
ConfigClass(b, n, s) == [base_config |-> b, config_name |-> n, sections |-> s]

\* the values CodeParser.find_class_attribute may give for configs: a list of
\* names reads as a list of None (lines 77-79); how an annotated assignment
\* reads is left open
FindConfigsAttribute(src) ==
    IF src.form \in {"none", "name_ref"} THEN {"None"}
    ELSE IF src.form = "not_list" THEN {"str"}
    ELSE IF src.form = "assign" THEN (IF src.names = <<>> THEN {"[]"} ELSE {"[...]"})
    ELSE {"None", IF src.names = <<>> THEN "[]" ELSE "[...]"}

\* _extract_config_class_names_from_ast: the elements of `configs = [...]`,
\* a cst.Assign (lines 108-118)
ExtractConfigClassNamesFromAst(src) ==
    IF src.form = "assign" THEN src.names ELSE <<>>

\* _extract_config_classes for one value of the attribute
ExtractConfigClasses(src, configs_value) ==
    IF configs_value \in {"None", "[]"}
    THEN [names |-> <<>>, issues |-> <<>>]
    ELSE IF configs_value # "[...]"
    THEN [names |-> <<>>,
          issues |-> <<Issue("error", "configs_not_list", "", "configs", PluginPy,
                             "suggestion", <<>>)>>]
    ELSE [names |-> ExtractConfigClassNamesFromAst(src), issues |-> <<>>]

NoConfigFile == <<"<none>">>

\* _find_config_class_file (lines 191-243): plugin.py, then the module of a
\* relative import, then every .py file of the tree but the __init__.py ones
FindConfigClassFile(src, name) ==
    IF src.where[name] = "plugin_py" THEN PluginPy
    ELSE IF src.where[name] = "imported" THEN <<"config.py">>
    ELSE IF src.where[name] = "tree" THEN <<"settings.py">>
    ELSE NoConfigFile

\* _validate_config_section for the sections of the class (lines 279-321)
RECURSIVE ValidateConfigSections(_, _, _)
ValidateConfigSections(name, file, sections) ==
    IF sections = <<>> THEN <<>>
    ELSE (IF Head(sections) THEN <<>>
          ELSE <<Issue("warning", "section_without_fields", name, "Section", file,
                       "suggestion", <<>>)>>)
         \o ValidateConfigSections(name, file, Tail(sections))

\* _validate_config_class (lines 130-189)
ValidateConfigClass(src, name) ==
    LET config_file == FindConfigClassFile(src, name)
        class == src.shape[name]
    IN  IF config_file = NoConfigFile
        THEN <<Issue("error", "config_not_found", name, "", PluginPy, "suggestion", <<>>)>>
        ELSE IF ~class.base_config
        THEN <<Issue("error", "not_base_config", name, "", config_file, "suggestion", <<>>)>>
        ELSE (IF ~class.config_name
              THEN <<Issue("warning", "no_config_name", name, "", config_file, "suggestion", <<>>)>>
              ELSE <<>>)
             \o (IF class.sections = <<>>
                 THEN <<Issue("warning", "no_sections", name, "", config_file, "suggestion", <<>>)>>
                 ELSE <<Issue("info", "sections_found", name, "", <<>>, "none", <<>>)>>)
             \o ValidateConfigSections(name, config_file, class.sections)

RECURSIVE ValidateConfigClasses(_, _)
ValidateConfigClasses(src, names) ==
    IF names = <<>> THEN <<>>
    ELSE ValidateConfigClass(src, Head(names)) \o ValidateConfigClasses(src, Tail(names))

\* ConfigValidator.validate (lines 18-52): the results it may return
ConfigValidate(src) ==
    IF src.form = "no_plugin_py"
    THEN {<<Issue("error", "plugin_file_missing", "", "", <<>>, "none", <<>>)>>}
    ELSE {LET extracted == ExtractConfigClasses(src, v)
          IN  IF extracted.names = <<>>
              THEN extracted.issues
                   \o <<Issue("warning", "no_configs", "", "", PluginPy, "suggestion", <<>>)>>
              ELSE <<Issue("info", "configs_found", "", "", <<>>, "none", extracted.names)>>
                   \o ValidateConfigClasses(src, extracted.names)
          : v \in FindConfigsAttribute(src)}

(***************************************************************************)
(* Specification of discovery: draw a body, extract its components         *)
(***************************************************************************)
CompareIdle ==
    /\ actual = <<>>
    /\ expected = <<>>
    /\ cmp_result = "none"
    /\ cmp_swapped = "none"

DiscoveryIdle ==
    /\ body = <<>>
    /\ components = <<>>

ValidateIdle ==
    /\ component = <<>>
    /\ issues = <<>>

MetaIdle ==
    /\ manifest = <<>>
    /\ meta_result = <<>>

ImportIdle ==
    /\ entry_imports = <<>>
    /\ import_map = <<>>

RunIdle == plugin_file = <<>>

ConfigIdle == config_source = <<>>

ManifestFixIdle ==
    /\ plugin_dir = <<>>
    /\ manifest_before = <<>>

EmptyTree == [p \in AllPaths |-> NoFile]

FixIdle ==
    /\ files = EmptyTree
    /\ import_from = ""
    /\ checked = EmptyTree
    /\ fixed_once = EmptyTree
    /\ fixes_applied = <<>>
    /\ fixes_failed = <<>>
    /\ passes = 0
    /\ visited = 0

InitDiscovery ==
    /\ pc = "discover"
    /\ body \in Bodies
    /\ components = <<>>
    /\ CompareIdle
    /\ ValidateIdle
    /\ FixIdle
    /\ MetaIdle
    /\ ImportIdle
    /\ RunIdle
    /\ ConfigIdle
    /\ ManifestFixIdle

Discover ==
    /\ pc = "discover"
    /\ components' = ExtractComponentsFromGetComponents(body)
    /\ pc' = "discovered"
    /\ UNCHANGED <<body, compareVars, validateVars, fixVars, metaVars, importVars, runVars, configVars, manifestFixVars>>

NextDiscovery == Discover

SpecDiscovery == InitDiscovery /\ [][NextDiscovery]_vars

(***************************************************************************)
(* Specification of component validation: draw a component class, run      *)
(* _validate_component on it                                               *)
(***************************************************************************)
BaseNames ==
    {"BaseAction", "Action", "BaseCommand", "BaseTool", "BaseAdapter",
     "BaseRouterComponent", "Widget"}

BaseExprs ==
    {BaseExpr("none", ""), BaseExpr("other", ""), BaseExpr("attribute", "BaseAction")}
    \cup {BaseExpr("name", b) : b \in BaseNames}

\* the attributes and methods the drawn class may define
FieldsOf(base) == FieldsOfBase(base)
MethodsOf(base) == GetOr(COMPONENT_REQUIRED_METHODS, GetBaseClass(base), <<"execute">>)

ExpectedReturn(base, m) ==
    LET sigs == GetOr(COMPONENT_METHOD_SIGNATURES, GetBaseClass(base), <<>>)
    IN  IF m \in DOMAIN sigs THEN sigs[m].return_type ELSE <<"None">>

ExpectedAsync(base, m) ==
    LET sigs == GetOr(COMPONENT_METHOD_SIGNATURES, GetBaseClass(base), <<>>)
    IN  IF m \in DOMAIN sigs THEN sigs[m].is_async ELSE TRUE

ReturnPool == {NoAnnotation, <<>>, <<"str">>, <<"tuple">>, <<"str", " ", "|", " ", "None">>}

CatchAlls == {<<FALSE, FALSE>>, <<TRUE, FALSE>>, <<FALSE, TRUE>>}

\* an implemented method that accepts anything and has the expected shape
GoodMethod(base, m) ==
    Method(ExpectedAsync(base, m), 1, TRUE, TRUE, ExpectedReturn(base, m), <<"other">>)

SignatureVariants(base, m) ==
    {Method(a, n, ca[1], ca[2], r, <<"other">>) :
        a \in BOOLEAN, n \in 0..3, ca \in CatchAlls,
        r \in ReturnPool \cup {ExpectedReturn(base, m)}}

BodyVariants(base, m) ==
    {Method(a, 2, FALSE, FALSE, ExpectedReturn(base, m), b) : a \in BOOLEAN, b \in MethodBodies}

MethodVariants(base, m) ==
    {NoMethod} \cup SignatureVariants(base, m) \cup BodyVariants(base, m)

FewMethods(base, m) ==
    {NoMethod, GoodMethod(base, m),
     Method(FALSE, 1, FALSE, FALSE, NoAnnotation, <<"docstring", "pass">>)}

\* paths relative to the plugin directory, as sequences of their segments
ComponentPaths == {<<"my_action.py">>, <<"actions", "my_action.py">>}

MakeComponent(loc, path, base, attrs, methods) ==
    [class_name |-> "MyAction", file_path |-> path, located |-> loc, base |-> base,
     attrs |-> attrs, methods |-> methods]

MethodTable(base, first, second) ==
    LET req == MethodsOf(base)
    IN  [m \in AllMethodNames |->
            IF m = req[1] THEN first
            ELSE IF Len(req) >= 2 /\ m = req[2] THEN second
            ELSE NoMethod]

\* every combination of attribute right-hand sides, with few method shapes
AttributeInputs ==
    {MakeComponent("ok", path, base, attrs, MethodTable(base, meth, meth)) :
        path \in ComponentPaths, base \in BaseExprs,
        attrs \in UNION {[Range(FieldsOf(b)) -> AttrKinds] : b \in BaseExprs},
        meth \in {NoMethod, Method(TRUE, 1, TRUE, TRUE, NoAnnotation, <<"other">>)}}

\* every method shape, with both attributes defined
MethodInputs ==
    UNION {
        {MakeComponent("ok", <<"my_action.py">>, base,
                       [f \in Range(FieldsOf(base)) |-> "str"],
                       MethodTable(base, first, second)) :
            first \in MethodVariants(base, MethodsOf(base)[1]),
            second \in FewMethods(base, MethodsOf(base)[Len(MethodsOf(base))])}
        : base \in BaseExprs}

\* components whose file or class cannot be read
UnlocatedInputs ==
    {MakeComponent(loc, path, BaseExpr("name", "BaseAction"),
                   [f \in Range(FieldsOf(BaseExpr("name", "BaseAction"))) |-> "str"],
                   MethodTable(BaseExpr("name", "BaseAction"), NoMethod, NoMethod)) :
        loc \in {"unresolved", "parse_error", "class_missing"}, path \in ComponentPaths}

ComponentInputs ==
    {c \in AttributeInputs : DOMAIN c.attrs = Range(FieldsOf(c.base))}
    \cup MethodInputs \cup UnlocatedInputs

InitValidate ==
    /\ pc = "validate"
    /\ component \in ComponentInputs
    /\ issues = <<>>
    /\ CompareIdle
    /\ DiscoveryIdle
    /\ FixIdle
    /\ MetaIdle
    /\ ImportIdle
    /\ RunIdle
    /\ ConfigIdle
    /\ ManifestFixIdle

Validate ==
    /\ pc = "validate"
    /\ issues' = issues \o ValidateComponent(component)
    /\ pc' = "validated"
    /\ UNCHANGED <<component, compareVars, discoveryVars, fixVars, metaVars, importVars, runVars, configVars, manifestFixVars>>

NextValidate == Validate

SpecValidate == InitValidate /\ [][NextValidate]_vars

(***************************************************************************)
(* Specification of the comparator: draw two annotations, compare them     *)
(***************************************************************************)
InitCompare ==
    /\ pc = "compare"
    /\ actual \in Annotations
    /\ expected \in Annotations
    /\ cmp_result = "none"
    /\ cmp_swapped = "none"
    /\ DiscoveryIdle
    /\ ValidateIdle
    /\ FixIdle
    /\ MetaIdle
    /\ ImportIdle
    /\ RunIdle
    /\ ConfigIdle
    /\ ManifestFixIdle

Compare ==
    /\ pc = "compare"
    /\ cmp_result' = CompareTypeAnnotations(actual, expected)
    /\ cmp_swapped' = CompareTypeAnnotations(expected, actual)
    /\ pc' = "compared"
    /\ UNCHANGED <<actual, expected, discoveryVars, validateVars, fixVars, metaVars, importVars, runVars, configVars, manifestFixVars>>

NextCompare == Compare

SpecCompare == InitCompare /\ [][NextCompare]_vars

(***************************************************************************)
(* Specification of check and fix: draw a plugin tree, let the validator   *)
(* report on the component, then call fix_issues with the report, more     *)
(* than once                                                               *)
(***************************************************************************)
FixBases == {BaseExpr("name", "BaseCommand"), BaseExpr("name", "BaseRouterComponent")}

RequiredMethodOf(base) == MethodsOf(base)[1]

\* a method of the class that no rule names
HelperMethod ==
    MethodMember("helper", Method(FALSE, 1, FALSE, FALSE, NoAnnotation, <<"other">>), 1, "custom")

AttrMembers(base, first, second) ==
    (IF first = "absent" THEN <<>> ELSE <<AttrMember(FieldsOfBase(base)[1], first, 0)>>)
    \o (IF second = "absent" THEN <<>> ELSE <<AttrMember(FieldsOfBase(base)[2], second, 1)>>)

\* the shapes of the required method in the drawn class
RequiredMethodShapes(base) ==
    {Method(a, n, FALSE, FALSE, r, <<"other">>) :
        a \in BOOLEAN, n \in 1..3,
        r \in {NoAnnotation, ExpectedReturn(base, RequiredMethodOf(base)), <<"str">>}}

RequiredMethodMembers(base) ==
    {<<>>}
    \cup {<<MethodMember(RequiredMethodOf(base), m, l, f)>> :
            m \in RequiredMethodShapes(base), l \in 0..MaxLead, f \in {"default", "custom"}}

\* a second class of the file, with a method of the same name
SiblingClass(base) ==
    ClassDef("Sibling", BaseExpr("name", "object"), FALSE,
             <<MethodMember(RequiredMethodOf(base),
                            Method(FALSE, 1, FALSE, FALSE, NoAnnotation, <<"pass">>), 1, "custom")>>)

ComponentFiles(base) ==
    {File(<<ClassDef("MyAction", base, doc,
                     AttrMembers(base, first, second)
                     \o (IF helper THEN <<HelperMethod>> ELSE <<>>)
                     \o required),
            SiblingClass(base)>>) :
        doc \in BOOLEAN, first \in {"absent", "str"}, second \in {"absent", "str"},
        helper \in BOOLEAN, required \in RequiredMethodMembers(base)}

\* another file of the plugin that defines a class of the same name
TwinFile(base) ==
    File(<<ClassDef("MyAction", base, TRUE,
                    <<MethodMember(RequiredMethodOf(base),
                                   Method(FALSE, 2, FALSE, FALSE, NoAnnotation, <<"other">>),
                                   1, "custom")>>)>>)

\* a file that does not define the component
UnrelatedFile ==
    File(<<ClassDef("Unrelated", BaseExpr("name", "object"), FALSE, <<HelperMethod>>)>>)

Top == <<"my_action.py">>
Sub == <<"actions", "my_action.py">>

Tree(top, sub) == [p \in AllPaths |-> IF p = Top THEN top ELSE sub]

\* plugin trees with the import of the component in plugin.py
LayoutKinds ==
    {"top", "sub", "top_with_twin", "sub_with_twin", "moved", "replaced", "top_read_only"}

Layout(kind, base, f) ==
    IF kind = "top" THEN [tree |-> Tree(f, NoFile), imp |-> ".my_action"]
    ELSE IF kind = "sub" THEN [tree |-> Tree(NoFile, f), imp |-> ".actions.my_action"]
    ELSE IF kind = "top_with_twin" THEN [tree |-> Tree(f, TwinFile(base)), imp |-> ".my_action"]
    ELSE IF kind = "sub_with_twin"
    THEN [tree |-> Tree(TwinFile(base), f), imp |-> ".actions.my_action"]
    ELSE IF kind = "moved" THEN [tree |-> Tree(NoFile, f), imp |-> ".my_action"]
    ELSE IF kind = "top_read_only" THEN [tree |-> Tree(ReadOnly(f), NoFile), imp |-> ".my_action"]
    ELSE [tree |-> Tree(UnrelatedFile, f), imp |-> ".my_action"]

InitFix ==
    /\ pc = "check"
    /\ \E kind \in LayoutKinds, base \in FixBases :
            \E f \in ComponentFiles(base) :
                /\ files = Layout(kind, base, f).tree
                /\ import_from = Layout(kind, base, f).imp
    /\ checked = EmptyTree
    /\ fixed_once = EmptyTree
    /\ fixes_applied = <<>>
    /\ fixes_failed = <<>>
    /\ passes = 0
    /\ visited = 0
    /\ CompareIdle
    /\ DiscoveryIdle
    /\ ValidateIdle
    /\ MetaIdle
    /\ ImportIdle
    /\ RunIdle
    /\ ConfigIdle
    /\ ManifestFixIdle

\* the component the validator reads for the import, one per file that
\* _resolve_component_file may return
ComponentsRead ==
    LET found == ResolveComponentFile(files, import_from, "MyAction")
    IN  IF found = {}
        THEN {MakeComponent("unresolved", <<>>, BaseExpr("none", ""),
                            [f \in Range(FieldsOfBase(BaseExpr("none", ""))) |-> "absent"],
                            [m \in AllMethodNames |-> NoMethod])}
        ELSE {ComponentAt(files, path, "MyAction") : path \in found}

\* ValidationIssue(..., suggestion=None): an issue of the same message
\* reported without a suggestion
WithoutSuggestion(all_issues) ==
    [i \in 1..Len(all_issues) |-> [all_issues[i] EXCEPT !.suggestion = "none"]]

\* ComponentValidator.validate on the tree
Check ==
    /\ pc = "check"
    /\ \E c \in ComponentsRead :
            /\ component' = c
            /\ issues' = ValidateComponent(c)
    /\ checked' = files
    /\ pc' = "checked"
    /\ UNCHANGED <<files, import_from, fixed_once, fixes_applied, fixes_failed, passes,
                   visited, compareVars, discoveryVars, metaVars, importVars, runVars, configVars, manifestFixVars>>

\* a caller of fix_issues that hands over the same issues without suggestions
Report ==
    /\ pc = "check"
    /\ \E c \in ComponentsRead :
            /\ component' = c
            /\ issues' = WithoutSuggestion(ValidateComponent(c))
    /\ checked' = files
    /\ pc' = "checked"
    /\ UNCHANGED <<files, import_from, fixed_once, fixes_applied, fixes_failed, passes,
                   visited, compareVars, discoveryVars, metaVars, importVars, runVars, configVars, manifestFixVars>>

\* AutoFixValidator.fix_issues([result]) on the tree
FixIssues ==
    /\ pc \in {"checked", "fixed"}
    /\ passes < MaxPasses
    /\ LET st == FixIssuesOn([files |-> files, applied |-> fixes_applied,
                              failed |-> fixes_failed, raised |-> FALSE, visited |-> 0],
                             issues)
       IN  /\ files' = st.files
           /\ fixes_applied' = st.applied
           /\ fixes_failed' = st.failed
           /\ visited' = st.visited
           /\ fixed_once' = IF passes = 0 THEN st.files ELSE fixed_once
           /\ pc' = IF st.raised THEN "raised" ELSE "fixed"   \* raised: to the caller
    /\ passes' = passes + 1
    /\ UNCHANGED <<import_from, checked, component, issues, compareVars, discoveryVars, metaVars, importVars, runVars, configVars, manifestFixVars>>

NextFix == Check \/ Report \/ FixIssues

SpecFix == InitFix /\ [][NextFix]_vars

(***************************************************************************)
(* Specification of manifest validation: draw the content of               *)
(* manifest.json, run MetadataValidator.validate on it                     *)
(***************************************************************************)
NoFields == [k \in ManifestKeys |-> "absent"]

\* the values drawn for each key of a top-level object
ValuesOf(key) ==
    IF key = "name" THEN {"absent", "str", "empty_str"}
    ELSE IF key = "version" THEN {"absent", "semver", "str", "number"}
    ELSE IF key = "description" THEN {"absent", "str"}
    ELSE IF key = "author" THEN {"absent", "str", "empty_str"}
    ELSE IF key = "dependencies" THEN {"absent", "deps", "empty_obj", "deps_bad", "list", "null"}
    ELSE IF key = "entry_point" THEN {"absent", "path", "str", "number", "null", "list"}
    ELSE IF key = "min_core_version" THEN {"absent", "str"}
    ELSE {"absent", "include_ok", "include_bad", "str"}

Fields(n, v, d, a, deps, e, c, i) ==
    [k \in ManifestKeys |->
        IF k = "name" THEN n
        ELSE IF k = "version" THEN v
        ELSE IF k = "description" THEN d
        ELSE IF k = "author" THEN a
        ELSE IF k = "dependencies" THEN deps
        ELSE IF k = "entry_point" THEN e
        ELSE IF k = "min_core_version" THEN c
        ELSE i]

ObjectManifests ==
    {[top |-> "object", fields |-> Fields(n, v, d, a, deps, e, c, i), holds |-> {}] :
        n \in ValuesOf("name"), v \in ValuesOf("version"), d \in ValuesOf("description"),
        a \in ValuesOf("author"), deps \in ValuesOf("dependencies"),
        e \in ValuesOf("entry_point"), c \in ValuesOf("min_core_version"),
        i \in ValuesOf("include")}

OtherManifests ==
    {[top |-> t, fields |-> NoFields, holds |-> {}] :
        t \in {"no_file", "invalid_json", "number", "null", "true", "false", "array", "string"}}
    \cup {[top |-> t, fields |-> NoFields, holds |-> {k}] :
            t \in {"array", "string"}, k \in {"name", "entry_point", "include"}}

Manifests == ObjectManifests \cup OtherManifests

PluginDirs == {PluginDir(h, w) : h \in BOOLEAN, w \in BOOLEAN}

InitManifest ==
    /\ pc = "manifest"
    /\ manifest \in Manifests
    /\ meta_result = <<>>
    /\ plugin_dir \in IF manifest.top = "no_file" THEN PluginDirs ELSE {PluginDir(TRUE, TRUE)}
    /\ manifest_before = manifest
    /\ CompareIdle
    /\ DiscoveryIdle
    /\ ValidateIdle
    /\ FixIdle
    /\ ImportIdle
    /\ RunIdle
    /\ ConfigIdle

ValidateManifest ==
    /\ pc = "manifest"
    /\ meta_result' = MetadataValidate(manifest)
    /\ pc' = "manifest_checked"
    /\ UNCHANGED <<manifest, compareVars, discoveryVars, validateVars, fixVars, importVars, runVars, configVars, manifestFixVars>>

\* AutoFixValidator.fix_issues([result]) with the result of the manifest
\* validation; none of its other fix classes matches an issue of that result
FixManifestIssues ==
    /\ pc \in {"manifest_checked", "manifest_fixed"}
    /\ meta_result.outcome = "returned"
    /\ passes < MaxPasses
    /\ LET all_issues == SelectSeq(meta_result.issues,
                                   LAMBDA i : i.level \in {"error", "warning"})
           st == FixMissingManifest([manifest |-> manifest, applied |-> fixes_applied,
                                     failed |-> fixes_failed], plugin_dir, all_issues)
       IN  /\ manifest' = st.manifest
           /\ fixes_applied' = st.applied
           /\ fixes_failed' = st.failed
    /\ manifest_before' = manifest
    /\ passes' = passes + 1
    /\ pc' = "manifest_fixed"
    /\ UNCHANGED <<meta_result, plugin_dir, files, import_from, checked, fixed_once, visited,
                   compareVars, discoveryVars, validateVars, importVars, runVars, configVars>>

\* MetadataValidator.validate after the fix
RevalidateManifest ==
    /\ pc = "manifest_fixed"
    /\ meta_result' = MetadataValidate(manifest)
    /\ pc' = "manifest_rechecked"
    /\ UNCHANGED <<manifest, compareVars, discoveryVars, validateVars, fixVars, importVars, runVars, configVars, manifestFixVars>>

NextManifest == ValidateManifest \/ FixManifestIssues \/ RevalidateManifest

SpecManifest == InitManifest /\ [][NextManifest]_vars

(***************************************************************************)
(* Specification of import collection: draw the imports of the entry file, *)
(* run _collect_imports on them                                            *)
(***************************************************************************)
ImportedNames == {"Foo", "Bar"}

Identifiers == {<<"myplugin">>, <<"myplugin", "_utils">>, <<"adapter">>}

\* dotted names of one or two identifiers
DottedNames == Identifiers \cup {a \o <<".">> \o b : a \in Identifiers, b \in Identifiers}

RelativeModules == {NoModule, <<"adapter">>, <<"myplugin">>}

ImportStatements ==
    {ImportFrom(l, m, n) : l \in 1..MaxLevel, m \in RelativeModules, n \in ImportedNames}
    \cup {ImportFrom(0, m, n) : m \in DottedNames, n \in ImportedNames}

InitImports ==
    /\ pc = "imports"
    /\ entry_imports \in SeqsUpTo(ImportStatements, MaxImports)
    /\ import_map = <<>>
    /\ CompareIdle
    /\ DiscoveryIdle
    /\ ValidateIdle
    /\ FixIdle
    /\ MetaIdle
    /\ RunIdle
    /\ ConfigIdle
    /\ ManifestFixIdle

CollectEntryImports ==
    /\ pc = "imports"
    /\ import_map' = CollectImports(entry_imports, ImportedNames)
    /\ pc' = "imports_collected"
    /\ UNCHANGED <<entry_imports, compareVars, discoveryVars, validateVars, fixVars, metaVars, runVars, configVars, manifestFixVars>>

NextImports == CollectEntryImports

SpecImports == InitImports /\ [][NextImports]_vars

(***************************************************************************)
(* Specification of a validation run: draw plugin.py (the plugin class and *)
(* the body of get_components), run ComponentValidator.validate            *)
(***************************************************************************)
\* class Bar(BaseAction) with its name, without its description, and with a
\* synchronous execute
BarClass ==
    ClassDef("Bar", BaseExpr("name", "BaseAction"), TRUE,
             <<AttrMember("action_name", "str", 0),
               MethodMember("execute",
                            Method(FALSE, 1, FALSE, FALSE, NoAnnotation, <<"other">>), 1, "default")>>)

PluginPyClasses == {<<>>, <<BarClass>>}

\* most positional parameters of get_components, the receiver included
MaxArgs == 3

PluginFiles ==
    {PluginFile(FALSE, TRUE, FALSE, "absent", "absent", 1, FALSE, <<>>),
     PluginFile(TRUE, FALSE, FALSE, "absent", "absent", 1, FALSE, <<>>)}
    \cup {PluginFile(TRUE, TRUE, FALSE, "absent", gc, 1, TRUE, cl) :
            gc \in {"absent", "elsewhere"}, cl \in PluginPyClasses}
    \cup {PluginFile(TRUE, TRUE, TRUE, pn, "absent", 1, FALSE, cl) :
            pn \in {"absent", "empty", "ok"}, cl \in PluginPyClasses}
    \cup {PluginFile(TRUE, TRUE, TRUE, pn, gc, n, r, cl) :
            pn \in {"absent", "empty", "ok"}, gc \in {"def", "async_def"},
            n \in 1..MaxArgs, r \in BOOLEAN, cl \in PluginPyClasses}

\* class MyPlugin(BasePlugin) with plugin_name and
\* def get_components(self) -> list[type]
UsualPluginFiles ==
    {PluginFile(TRUE, TRUE, TRUE, "ok", "def", 1, TRUE, cl) : cl \in PluginPyClasses}

\* bodies that return no names, one name, and the names of Scenario C
SampleBodies ==
    {<<>>,
     <<Stmt("return_list", "", <<>>)>>,
     <<Stmt("return_expr", "", <<>>)>>,
     <<Stmt("if_return", "", <<"Foo">>)>>,
     <<Stmt("return_list", "", <<"Bar">>)>>,
     ScenarioCBody}

RunBodies == SeqsUpTo(Statements, MaxBody - 1)

\* class Foo(BaseAction), complete
FooClass ==
    ClassDef("Foo", BaseExpr("name", "BaseAction"), TRUE,
             <<AttrMember("action_name", "str", 0),
               AttrMember("action_description", "str", 0),
               MethodMember("execute",
                            Method(TRUE, 1, FALSE, TRUE,
                                   <<"tuple", "[", "bool", ",", " ", "str", "]">>, <<"other">>),
                            1, "default")>>)

\* class Foo(BaseAction) without action_description
FooClassIncomplete ==
    ClassDef("Foo", BaseExpr("name", "BaseAction"), TRUE,
             <<AttrMember("action_name", "str", 0),
               MethodMember("execute",
                            Method(TRUE, 1, FALSE, TRUE,
                                   <<"tuple", "[", "bool", ",", " ", "str", "]">>, <<"other">>),
                            1, "default")>>)

\* what a path of the tree may hold when it is where Foo is looked for
FooFiles ==
    {NoFile, File(<<FooClass>>), File(<<FooClassIncomplete>>), Unparsable(File(<<FooClass>>)),
     File(<<>>)}

\* the plugin tree next to plugin.py: actions/foo.py, the package
\* actions/foo/ and a file elsewhere in the tree
RunTrees ==
    {[p \in AllPaths \cup {FooPy, FooInitPy} |->
        IF p = FooPy THEN foo
        ELSE IF p = FooInitPy THEN init
        ELSE IF p = <<"my_action.py">> THEN other
        ELSE sub] :
       foo \in FooFiles,
       init \in {NoFile, File(<<FooClassIncomplete>>)},
       other \in {NoFile, File(<<FooClassIncomplete>>), Unparsable(File(<<FooClass>>))},
       sub \in {NoFile, File(<<FooClassIncomplete>>)}}

\* bodies that register Foo and Bar, in both orders and with Foo between
TreeBodies ==
    {<<Stmt("return_list", "", <<"Foo">>)>>,
     <<Stmt("return_list", "", <<"Foo", "Bar">>)>>,
     <<Stmt("return_list", "", <<"Bar", "Foo">>)>>,
     <<Stmt("assign", "components", <<"Bar", "Foo">>),
       Stmt("append", "components", <<"Bar">>),
       Stmt("return_name", "components", <<>>)>>}

InitRun ==
    /\ pc = "run"
    /\ \/ /\ plugin_file \in PluginFiles
          /\ body \in IF plugin_file.get_components = "absent" THEN {<<>>} ELSE SampleBodies
          /\ files = EmptyTree
       \/ /\ plugin_file \in UsualPluginFiles
          /\ body \in RunBodies
          /\ files = EmptyTree
       \/ /\ plugin_file \in UsualPluginFiles
          /\ body \in TreeBodies
          /\ files \in RunTrees
       \/ /\ plugin_file \in {PluginClassLast(pf) : pf \in {f \in PluginFiles : f.has_class}}
          /\ body \in SampleBodies
          /\ files = EmptyTree
    /\ components = <<>>
    /\ component = <<>>
    /\ issues = <<>>
    /\ import_from = ""
    /\ checked = EmptyTree
    /\ fixed_once = EmptyTree
    /\ fixes_applied = <<>>
    /\ fixes_failed = <<>>
    /\ passes = 0
    /\ visited = 0
    /\ CompareIdle
    /\ MetaIdle
    /\ ImportIdle
    /\ ConfigIdle
    /\ ManifestFixIdle

ValidateRun ==
    /\ pc = "run"
    /\ components' = IF plugin_file.exists
                     THEN ExtractComponentsFromPlugin(plugin_file, body).components ELSE <<>>
    /\ issues' \in ValidatePlugin(plugin_file, body, files)
    /\ pc' = "run_done"
    /\ UNCHANGED <<body, component, compareVars, fixVars, metaVars, importVars, runVars, configVars, manifestFixVars>>

\* AutoFixValidator.fix_issues([result]) with the result of the run
FixRun ==
    /\ pc \in {"run_done", "run_fixed"}
    /\ passes < MaxPasses
    /\ LET before == [files |-> PluginTree(plugin_file, files), applied |-> fixes_applied,
                      failed |-> fixes_failed, raised |-> FALSE, visited |-> 0]
           st == IF plugin_file.exists THEN FixIssuesOn(before, issues) ELSE before
       IN  /\ plugin_file' = ReadPluginFile(plugin_file, st.files[PluginPy])
           /\ files' = [p \in DOMAIN files |-> st.files[p]]
           /\ fixes_applied' = st.applied
           /\ fixes_failed' = st.failed
           /\ visited' = st.visited
           /\ pc' = IF st.raised THEN "raised" ELSE "run_fixed"
    /\ passes' = passes + 1
    /\ UNCHANGED <<body, components, component, issues, import_from, checked, fixed_once,
                   compareVars, metaVars, importVars, configVars, manifestFixVars>>

\* ComponentValidator.validate after the fix
RevalidateRun ==
    /\ pc = "run_fixed"
    /\ components' = IF plugin_file.exists
                     THEN ExtractComponentsFromPlugin(plugin_file, body).components ELSE <<>>
    /\ issues' \in ValidatePlugin(plugin_file, body, files)
    /\ pc' = "run_rechecked"
    /\ UNCHANGED <<body, component, compareVars, fixVars, metaVars, importVars, runVars, configVars, manifestFixVars>>

NextRun == ValidateRun \/ FixRun \/ RevalidateRun

SpecRun == InitRun /\ [][NextRun]_vars

(***************************************************************************)
(* Specification of config validation: draw the configs declaration and    *)
(* the places of the config classes, run ConfigValidator.validate          *)
(***************************************************************************)
ConfigNames == {"Config", "OtherConfig"}

\* lists of distinct names
ConfigLists == {l \in SeqsUpTo(ConfigNames, MaxConfigs) : Cardinality(Range(l)) = Len(l)}

ConfigPlaces == {"plugin_py", "imported", "tree", "init_only", "nowhere"}

ConfigShapes ==
    {ConfigClass(FALSE, FALSE, <<>>),
     ConfigClass(TRUE, FALSE, <<>>),
     ConfigClass(TRUE, TRUE, <<TRUE>>),
     ConfigClass(TRUE, TRUE, <<FALSE>>)}

NoConfigClass == ConfigClass(FALSE, FALSE, <<>>)

ConfigSources ==
    {ConfigSource(f, <<>>, [n \in ConfigNames |-> "nowhere"], [n \in ConfigNames |-> NoConfigClass]) :
        f \in {"no_plugin_py", "none", "not_list", "name_ref"}}
    \cup {src \in {ConfigSource(f, l, w, sh) :
                        f \in {"assign", "ann_assign"}, l \in ConfigLists,
                        w \in [ConfigNames -> ConfigPlaces],
                        sh \in [ConfigNames -> ConfigShapes]} :
                \A n \in ConfigNames : src.where[n] = "nowhere" => src.shape[n] = NoConfigClass}

InitConfig ==
    /\ pc = "config"
    /\ config_source \in ConfigSources
    /\ issues = <<>>
    /\ component = <<>>
    /\ CompareIdle
    /\ DiscoveryIdle
    /\ FixIdle
    /\ MetaIdle
    /\ ImportIdle
    /\ RunIdle
    /\ ManifestFixIdle

ValidateConfig ==
    /\ pc = "config"
    /\ issues' \in ConfigValidate(config_source)
    /\ pc' = "config_checked"
    /\ UNCHANGED <<component, compareVars, discoveryVars, fixVars, metaVars, importVars, runVars,
                   configVars, manifestFixVars>>

NextConfig == ValidateConfig

SpecConfig == InitConfig /\ [][NextConfig]_vars

(***************************************************************************)
(* Claims about component validation                                       *)
(***************************************************************************)
ClassFound == pc = "validated" /\ component.located = "ok"

BaseClassOfComponent == GetBaseClass(component.base)

KnownBase == BaseClassOfComponent \in DOMAIN COMPONENT_REQUIRED_FIELDS

IssuesAbout(subject) == {i \in 1..Len(issues) : issues[i].subject = subject}

AttributeOrMethodIssueKinds ==
    {"missing_attr", "empty_attr", "missing_method", "empty_method", "stub_method",
     "should_be_async", "should_not_be_async", "missing_params", "too_many_params",
     "return_mismatch", "missing_return"}

\* C2: for a discovered component whose class is found and whose first base
\* class name is absent from the rule table, exactly one Error is emitted, it
\* names the class and the unknown base, and no attribute or method check is
\* performed.
C2_ClosedWorldBase ==
    (ClassFound /\ ~KnownBase) =>
        /\ Cardinality({i \in 1..Len(issues) : issues[i].level = "error"}) = 1
        /\ \E i \in 1..Len(issues) :
                /\ issues[i].level = "error"
                /\ issues[i].kind = "unknown_base"
                /\ issues[i].class_name = component.class_name
                /\ issues[i].subject = BaseClassOfComponent
        /\ \A i \in 1..Len(issues) : issues[i].kind \notin AttributeOrMethodIssueKinds

\* C2 witness: a validated class with an unknown base that defines neither
\* the attributes nor the methods, reported by the single Error.
C2_Witness ==
    /\ ClassFound
    /\ BaseClassOfComponent = "Widget"
    /\ \A f \in DOMAIN component.attrs : component.attrs[f] = "absent"
    /\ \A m \in AllMethodNames : component.methods[m] = NoMethod
    /\ Len(issues) = 1
    /\ issues[1].kind = "unknown_base"

\* the value the class attribute has when the class statement is executed
DefinedFalsy(kind) == kind \in {"empty_str", "empty_list"}
DefinedNonEmpty(kind) == kind \in {"str", "name_ref"}

\* C3: for each attribute the rule table requires, exactly one Error with a
\* fix suggestion if the class body does not define it, exactly one Warning if
\* it is defined with a falsy value, and no issue if it is defined with a
\* non-empty value.
C3_RequiredAttributes ==
    (ClassFound /\ KnownBase) =>
        \A k \in 1..Len(COMPONENT_REQUIRED_FIELDS[BaseClassOfComponent]) :
            LET field == COMPONENT_REQUIRED_FIELDS[BaseClassOfComponent][k]
                kind == component.attrs[field]
                about == IssuesAbout(field)
            IN  /\ kind = "absent" =>
                    /\ Cardinality(about) = 1
                    /\ \A i \in about : /\ issues[i].level = "error"
                                        /\ issues[i].kind = "missing_attr"
                                        /\ issues[i].suggestion # "none"
                /\ DefinedFalsy(kind) =>
                    /\ Cardinality(about) = 1
                    /\ \A i \in about : issues[i].level = "warning"
                /\ DefinedNonEmpty(kind) => about = {}

\* a body of only a docstring, pass statements and raises of NotImplementedError
ConsistsOfStubStatements(stmts) ==
    \A i \in 1..Len(stmts) : stmts[i] \in {"docstring", "pass", "raise_bare", "raise_call"}

HasStubWarning(m) ==
    \E i \in 1..Len(issues) :
        issues[i].kind = "stub_method" /\ issues[i].subject = m /\ issues[i].level = "warning"

\* C4: the 'may not be implemented' Warning is emitted for a required method
\* if and only if its body consists only of a docstring, pass statements
\* and/or a raise of NotImplementedError.
C4_StubDetection ==
    (ClassFound /\ KnownBase) =>
        \A k \in 1..Len(GetOr(COMPONENT_REQUIRED_METHODS, BaseClassOfComponent, <<>>)) :
            LET m == COMPONENT_REQUIRED_METHODS[BaseClassOfComponent][k]
            IN  component.methods[m] # NoMethod =>
                    (HasStubWarning(m) <=> ConsistsOfStubStatements(component.methods[m].stmts))

RequiredMethodsOfComponent == GetOr(COMPONENT_REQUIRED_METHODS, BaseClassOfComponent, <<>>)

SignaturesOfComponent == GetOr(COMPONENT_METHOD_SIGNATURES, BaseClassOfComponent, <<>>)

IssuesOfKindAbout(kinds, subject) ==
    {i \in 1..Len(issues) : issues[i].subject = subject /\ issues[i].kind \in kinds}

\* C18: Required methods.  For each method the rule table requires of the
\* base class of a validated component: if the class body does not define
\* it, exactly one issue is about the method, an Error with a fix suggestion
\* (so neither the stub nor the signature check has reported on it); if the
\* class defines it, no 'missing method' Error is about it and both checks
\* have run: a body of only pass statements has its Warning, and a
\* synchronous definition of a method the table wants asynchronous has its
\* Error.
C18_RequiredMethods ==
    (ClassFound /\ KnownBase) =>
        \A k \in 1..Len(RequiredMethodsOfComponent) :
            LET m == RequiredMethodsOfComponent[k]
                meth == component.methods[m]
            IN  /\ meth = NoMethod =>
                    /\ Cardinality(IssuesAbout(m)) = 1
                    /\ \A i \in IssuesAbout(m) : /\ issues[i].level = "error"
                                                 /\ issues[i].kind = "missing_method"
                                                 /\ issues[i].suggestion # "none"
                /\ meth # NoMethod =>
                    /\ IssuesOfKindAbout({"missing_method"}, m) = {}
                    /\ (Range(meth.stmts) = {"pass"} => HasStubWarning(m))
                    /\ m \in DOMAIN SignaturesOfComponent
                    /\ (SignaturesOfComponent[m].is_async /\ ~meth.is_async
                            => IssuesOfKindAbout({"should_be_async"}, m) # {})

\* C18 witness: an adapter class that defines only the second of its two
\* required methods, synchronously: one Error for the missing one, the
\* asynchrony Error for the defined one
C18_Witness ==
    /\ ClassFound
    /\ BaseClassOfComponent = "BaseAdapter"
    /\ component.methods["from_platform_message"] = NoMethod
    /\ component.methods["get_bot_info"] # NoMethod
    /\ ~component.methods["get_bot_info"].is_async
    /\ Cardinality(IssuesAbout("from_platform_message")) = 1
    /\ IssuesOfKindAbout({"should_be_async"}, "get_bot_info") # {}

AsynchronyKinds == {"should_be_async", "should_not_be_async"}

\* C19: Asynchrony check.  For a required method that the class defines and
\* the table has a signature for: exactly one Error, whose suggestion is the
\* `async def <method>` one, when the signature is asynchronous and the
\* method is not; exactly one Warning when the signature is synchronous and
\* the method is asynchronous; no asynchrony issue otherwise.
C19_AsynchronyCheck ==
    (ClassFound /\ KnownBase) =>
        \A k \in 1..Len(RequiredMethodsOfComponent) :
            LET m == RequiredMethodsOfComponent[k]
                meth == component.methods[m]
                about == IssuesOfKindAbout(AsynchronyKinds, m)
            IN  (meth # NoMethod /\ m \in DOMAIN SignaturesOfComponent) =>
                    LET wanted == SignaturesOfComponent[m].is_async
                    IN  /\ (wanted /\ ~meth.is_async) =>
                            /\ Cardinality(about) = 1
                            /\ \A i \in about : /\ issues[i].level = "error"
                                                /\ issues[i].suggestion = "change_to_async"
                        /\ (~wanted /\ meth.is_async) =>
                            /\ Cardinality(about) = 1
                            /\ \A i \in about : issues[i].level = "warning"
                        /\ (wanted = meth.is_async) => about = {}

\* C19 witness (Scenario D): a synchronous execute on a class whose base
\* wants an asynchronous execute, reported by one Error
C19_Witness ==
    /\ ClassFound
    /\ BaseClassOfComponent = "BaseAction"
    /\ component.methods["execute"] # NoMethod
    /\ ~component.methods["execute"].is_async
    /\ Cardinality(IssuesOfKindAbout(AsynchronyKinds, "execute")) = 1

\* the other direction: an asynchronous register_endpoints on a router
\* component, reported by one Warning
AsyncWhereSyncWanted ==
    /\ ClassFound
    /\ BaseClassOfComponent = "BaseRouterComponent"
    /\ component.methods["register_endpoints"].is_async
    /\ \E i \in IssuesOfKindAbout(AsynchronyKinds, "register_endpoints") :
            issues[i].level = "warning"

(***************************************************************************)
(* Claims about the comparator                                             *)
(***************************************************************************)
\* the matching rules as the documentation of the comparator states them
RuleWhitespaceEqual(a, e) == StripSpaces(a) = StripSpaces(e)
\* position of the "]" that closes the bracket opened just before position i
RECURSIVE MatchingClose(_, _, _)
MatchingClose(s, i, depth) ==
    IF i > Len(s) THEN 0
    ELSE IF s[i] = "[" THEN MatchingClose(s, i + 1, depth + 1)
    ELSE IF s[i] = "]" THEN (IF depth = 0 THEN i ELSE MatchingClose(s, i + 1, depth - 1))
    ELSE MatchingClose(s, i + 1, depth)

\* Optional[X] rewritten to X|None, for every well-bracketed Optional[...]
RECURSIVE RewriteOptional(_)
RewriteOptional(s) ==
    IF s = <<>> THEN <<>>
    ELSE IF Len(s) >= 2 /\ s[1] = "Optional" /\ s[2] = "[" /\ MatchingClose(s, 3, 0) # 0
         THEN LET j == MatchingClose(s, 3, 0)
              IN  RewriteOptional(SubSeq(s, 3, j - 1)) \o <<"|", "None">>
                      \o RewriteOptional(SubSeq(s, j + 1, Len(s)))
    ELSE <<Head(s)>> \o RewriteOptional(Tail(s))

RuleOptionalEqual(a, e) ==
    RewriteOptional(StripSpaces(a)) = RewriteOptional(StripSpaces(e))
RuleSameGenericBase(a, e) ==
    GenericBase(StripSpaces(a)) = GenericBase(StripSpaces(e))
IsBareName(s) == Len(s) = 1 /\ s[1] \in WordTokens

\* every "]" closes an earlier "[" and every "[" is closed
RECURSIVE BracketDepthOk(_, _)
BracketDepthOk(s, depth) ==
    IF s = <<>> THEN depth = 0
    ELSE IF Head(s) = "[" THEN BracketDepthOk(Tail(s), depth + 1)
    ELSE IF Head(s) = "]" THEN depth > 0 /\ BracketDepthOk(Tail(s), depth - 1)
    ELSE BracketDepthOk(Tail(s), depth)

WellBracketed(s) == BracketDepthOk(s, 0)

\* C5: the comparator is symmetric: compare(a, b) = compare(b, a) for all
\* annotation strings a and b.
C5_Symmetric == pc = "compared" => cmp_result = cmp_swapped

\* C5 witness: the comparator has been applied to two annotations of which
\* only the first one uses Union syntax and which match by no other rule.
C5_Witness ==
    /\ pc = "compared"
    /\ HasUnionSyntax(actual) /\ ~HasUnionSyntax(expected)
    /\ ~RuleWhitespaceEqual(actual, expected)
    /\ ~RuleSameGenericBase(actual, expected)
    /\ cmp_result = TRUE

\* C6: when rules (a)-(c) do not match and at least one annotation contains
\* Union or |, the comparator returns match if and only if the sets of bare
\* identifier tokens of the two annotations are equal.
C6_UnionRuleComparesIdentifierSets ==
    (/\ pc = "compared"
     /\ ~RuleWhitespaceEqual(actual, expected)
     /\ ~RuleOptionalEqual(actual, expected)
     /\ ~RuleSameGenericBase(actual, expected)
     /\ (HasUnionSyntax(actual) \/ HasUnionSyntax(expected)))
    => (cmp_result <=> (IdentifierSet(actual) = IdentifierSet(expected)))

\* C7: the comparator returns match whenever the two strings are equal after
\* removing whitespace, or equal after the Optional rewriting, or have the
\* same text before the first "[", and returns no match for two different
\* bare type names.
C7_RulesAtoC ==
    (pc = "compared" /\ WellBracketed(actual) /\ WellBracketed(expected)) =>
        /\ (RuleWhitespaceEqual(actual, expected) => cmp_result = TRUE)
        /\ (RuleOptionalEqual(actual, expected) => cmp_result = TRUE)
        /\ (RuleSameGenericBase(actual, expected) => cmp_result = TRUE)
        /\ ((IsBareName(actual) /\ IsBareName(expected) /\ actual # expected)
                => cmp_result = FALSE)

\* the three sufficient rules alone, without the statement about bare names
SufficientRulesMatch ==
    (pc = "compared" /\ WellBracketed(actual) /\ WellBracketed(expected)) =>
        /\ (RuleWhitespaceEqual(actual, expected) => cmp_result = TRUE)
        /\ (RuleOptionalEqual(actual, expected) => cmp_result = TRUE)
        /\ (RuleSameGenericBase(actual, expected) => cmp_result = TRUE)

(***************************************************************************)
(* Claims about discovery                                                  *)
(***************************************************************************)
\* the names a body mentions for variable v, in source order
RECURSIVE SourceOrder(_, _)
SourceOrder(stmts, v) ==
    IF stmts = <<>> THEN <<>>
    ELSE (IF Head(stmts).kind \in {"assign", "append"} /\ Head(stmts).target = v
          THEN Head(stmts).elts ELSE <<>>) \o SourceOrder(Tail(stmts), v)

IsReturn(st) == st.kind \in {"return_list", "return_name", "return_expr", "return_none"}

\* v is assigned a literal list exactly once, before every v.append(Name),
\* and the body is closed by its only return statement, `return v`
IsAppendSequenceBody(stmts, v) ==
    /\ Len(stmts) >= 2
    /\ stmts[Len(stmts)] = Stmt("return_name", v, <<>>)
    /\ \A i \in 1..(Len(stmts) - 1) : ~IsReturn(stmts[i])
    /\ \E i \in 1..(Len(stmts) - 1) :
            /\ stmts[i].kind = "assign" /\ stmts[i].target = v
            /\ \A k \in 1..(Len(stmts) - 1) :
                    (stmts[k].target = v /\ k # i) => (stmts[k].kind = "append" /\ k > i)

\* the body is closed by its only return statement, `return [literal list]`
IsLiteralReturnBody(stmts) ==
    /\ Len(stmts) >= 1
    /\ stmts[Len(stmts)].kind = "return_list"
    /\ \A i \in 1..(Len(stmts) - 1) : ~IsReturn(stmts[i])

DiscoveredNames == [i \in 1..Len(components) |-> components[i].class_name]

RECURSIVE IsSubsequence(_, _)
IsSubsequence(a, b) ==
    IF a = <<>> THEN TRUE
    ELSE IF b = <<>> THEN FALSE
    ELSE IF Head(a) = Head(b) THEN IsSubsequence(Tail(a), Tail(b))
    ELSE IsSubsequence(a, Tail(b))

\* the lines of a file other than the def line of method m of class C
OtherLines(f, class_name, method_name) ==
    SelectSeq(Render(f),
              LAMBDA ln : ~(ln[1] = "def" /\ ln[2] = class_name /\ ln[3] = method_name))

\* the required method of class C in a file, NoMethod when there is none
MethodInFile(f, class_name, method_name) ==
    LET k == FindClass(f.classes, class_name, 1)
    IN  IF k = 0 THEN NoMethod ELSE MethodOf(f.classes[k].body, method_name)

FixRecorded(kind) == \E i \in 1..Len(fixes_applied) : fixes_applied[i].fix = kind

\* C8: Idempotence of Auto-Fix.  Once fix_issues has been applied to an
\* issue set, applying it again with the same issue set leaves the content
\* of every file of the plugin tree as the first application left it.
C8_Idempotent == (pc = "fixed" /\ passes >= 2) => files = fixed_once

\* a second pass after a first pass that added an attribute and made a
\* method asynchronous
C8_Witness ==
    /\ pc = "fixed"
    /\ passes = 2
    /\ fixed_once # checked
    /\ FixRecorded("add_attr")
    /\ FixRecorded("fix_async")

\* the report is the single Error "method m of class C should be an async
\* method", about a file that lies in the plugin directory itself and can
\* be written, and fix_issues has consumed it once
AsyncFlipCase ==
    /\ pc = "fixed"
    /\ passes = 1
    /\ Len(issues) = 1
    /\ issues[1].kind = "should_be_async"
    /\ Len(issues[1].file_path) = 1
    /\ ~checked[issues[1].file_path].read_only

\* C9: Async flip (Scenario D).  After Auto-Fix consumes the "should be an
\* async method" Error for method m of class C, m in C is asynchronous and
\* every other line of the file, the blank lines and comments that precede
\* m included, is the same as before the fix.
C9_AsyncFlipFrame ==
    AsyncFlipCase =>
        LET i == issues[1]
        IN  /\ MethodInFile(files[i.file_path], i.class_name, i.subject).is_async
            /\ OtherLines(files[i.file_path], i.class_name, i.subject)
                 = OtherLines(checked[i.file_path], i.class_name, i.subject)

\* the part of C9 the code keeps: the method is asynchronous afterwards and
\* the statements of every method and all attributes are unchanged
AsyncFlipKeepsStatements ==
    AsyncFlipCase =>
        LET i == issues[1]
            NotLead(ln) == ln[1] # "lead"
        IN  /\ MethodInFile(files[i.file_path], i.class_name, i.subject).is_async
            /\ SelectSeq(OtherLines(files[i.file_path], i.class_name, i.subject), NotLead)
                 = SelectSeq(OtherLines(checked[i.file_path], i.class_name, i.subject), NotLead)

\* every issue of the report asks for a class attribute or a method to be
\* added, and fix_issues has consumed the report once
AddFixCase ==
    /\ pc = "fixed"
    /\ passes = 1
    /\ issues # <<>>
    /\ \A i \in 1..Len(issues) : issues[i].kind \in {"missing_attr", "missing_method"}

NamedByIssues == {issues[i].file_path : i \in 1..Len(issues)}

\* C10: Format preservation.  For fixes that add a class attribute or a
\* method, the lines of every file before the fix are still there, in the
\* same order, after the fix (only lines at the insertion points are new),
\* and no file other than the one the issue names is written.
C10_FormatPreservation ==
    AddFixCase =>
        \A p \in AllPaths :
            /\ files[p].exists = checked[p].exists
            /\ IsSubsequence(Render(checked[p]), Render(files[p]))
            /\ (p \notin NamedByIssues => files[p] = checked[p])

\* the part of C10 the code keeps: whatever file is written, its former
\* lines are all kept in order
AddFixKeepsLines ==
    AddFixCase =>
        \A p \in AllPaths :
            /\ files[p].exists = checked[p].exists
            /\ IsSubsequence(Render(checked[p]), Render(files[p]))

\* a 'missing required method' Error as ComponentValidator words it, about
\* a file that lies in the plugin directory itself
IsValidatorMissingMethod(i) ==
    /\ i.kind = "missing_method"
    /\ i.level = "error"
    /\ i.suggestion = "async_def_stub"
    /\ Len(i.file_path) = 1

FixRecordedFor(kind, class_name, subject) ==
    \E k \in 1..Len(fixes_applied) :
        /\ fixes_applied[k].fix = kind
        /\ fixes_applied[k].class_name = class_name
        /\ fixes_applied[k].subject = subject

\* C11: Missing-method fix.  When fix_issues consumes a 'missing required
\* method' Error that ComponentValidator emitted for method m of class C in
\* an existing file, afterwards C defines m, m is asynchronous (the
\* suggestion says `async def`), and the fix is recorded in fixes_applied.
C11_MissingMethodFix ==
    (pc = "fixed" /\ passes = 1) =>
        \A k \in 1..Len(issues) :
            IsValidatorMissingMethod(issues[k]) =>
                LET i == issues[k]
                    m == MethodInFile(files[i.file_path], i.class_name, i.subject)
                IN  /\ m # NoMethod
                    /\ m.is_async
                    /\ FixRecordedFor("add_method", i.class_name, i.subject)

\* what the code does with such an Error: the attempt is recorded as failed
\* and the class is left without the method
MissingMethodFixFails ==
    (pc = "fixed" /\ passes = 1) =>
        \A k \in 1..Len(issues) :
            IsValidatorMissingMethod(issues[k]) =>
                LET i == issues[k]
                IN  /\ MethodInFile(files[i.file_path], i.class_name, i.subject) = NoMethod
                    /\ \E j \in 1..Len(fixes_failed) :
                            /\ fixes_failed[j].fix = "add_method"
                            /\ fixes_failed[j].subject = i.subject

\* the fix a message pattern of fix_issues leads to
FixKindOf(issue_kind) ==
    IF issue_kind = "missing_attr" THEN {"add_attr", "no_class"}
    ELSE IF issue_kind = "missing_method" THEN {"add_method"}
    ELSE IF issue_kind \in {"should_be_async", "should_not_be_async"} THEN {"fix_async"}
    ELSE IF issue_kind \in {"missing_params", "too_many_params"} THEN {"fix_params"}
    ELSE IF issue_kind = "missing_return" THEN {"fix_return"}
    ELSE {}

\* the attempt for the issue is in one of the two lists
AttemptRecorded(i) ==
    \E log \in {fixes_applied, fixes_failed} :
        \E k \in 1..Len(log) :
            /\ log[k].fix \in FixKindOf(i.kind)
            /\ log[k].class_name = i.class_name
            /\ log[k].subject = i.subject

\* C12: No silent skip.  Every Error or Warning whose message matches a fix
\* pattern (missing attribute, missing method, async mismatch, parameter
\* mismatch, missing return annotation) is, after fix_issues returns,
\* recorded in fixes_applied or in fixes_failed.
C12_NoSilentSkip ==
    (pc = "fixed" /\ passes = 1) =>
        \A k \in 1..Len(issues) :
            (issues[k].level \in {"error", "warning"} /\ FixKindOf(issues[k].kind) # {})
                => AttemptRecorded(issues[k])

\* what the code keeps of C12: an issue whose file is found, and that is not
\* a parameter issue, is recorded in one of the two lists
LocatedFixesAreRecorded ==
    (pc = "fixed" /\ passes = 1) =>
        \A k \in 1..Len(issues) :
            (/\ FixKindOf(issues[k].kind) # {}
             /\ issues[k].kind \notin {"missing_params", "too_many_params"}
             /\ Exists(checked, ResolveFilePath(issues[k].file_path)))
                => AttemptRecorded(issues[k])

FailureRecorded(kind) == \E i \in 1..Len(fixes_failed) : fixes_failed[i].fix = kind

ManifestChecked == pc = "manifest_checked"

\* number of Errors of the result that satisfy the test
ErrorsWhere(result, Test(_)) ==
    Len(SelectSeq(result.issues, LAMBDA i : i.level = "error" /\ Test(i)))

MissingRequiredErrors(result, key) ==
    LET About(i) == i.kind = "missing_required" /\ i.subject = key
    IN  ErrorsWhere(result, About)

\* C14: Manifest required keys.  For a manifest that parses to a JSON
\* object, the validator emits exactly one 'missing required field' Error
\* for each required key that is absent from the object and none for a
\* required key that is present.
C14_RequiredKeys ==
    (ManifestChecked /\ manifest.top = "object" /\ meta_result.outcome = "returned") =>
        \A k \in 1..Len(REQUIRED_FIELDS) :
            LET key == REQUIRED_FIELDS[k]
            IN  MissingRequiredErrors(meta_result, key)
                    = IF manifest.fields[key] = "absent" THEN 1 ELSE 0

\* the part of C14 that holds (Scenario A): a manifest that lacks only
\* `author` yields exactly one Error, about author, and no success
OnlyAuthorMissing ==
    /\ manifest.top = "object"
    /\ manifest.fields["author"] = "absent"
    /\ manifest.fields["name"] = "str"
    /\ manifest.fields["version"] = "semver"
    /\ manifest.fields["description"] = "str"
    /\ manifest.fields["dependencies"] = "deps"
    /\ manifest.fields["entry_point"] = "path"
    /\ manifest.fields["include"] \in {"absent", "include_ok"}

ScenarioAOneError ==
    (ManifestChecked /\ OnlyAuthorMissing) =>
        LET AnyIssue(i) == TRUE
        IN  /\ meta_result.outcome = "returned"
            /\ ErrorsWhere(meta_result, AnyIssue) = 1
            /\ MissingRequiredErrors(meta_result, "author") = 1
            /\ ~Success(meta_result)

\* C15: validate returns a result without raising for every manifest.json
\* whose content is syntactically valid JSON, whatever the JSON type of the
\* top-level value and of its fields.
C15_NeverRaises ==
    (ManifestChecked /\ manifest.top \notin {"no_file", "invalid_json"}) =>
        meta_result.outcome = "returned"

\* what the code keeps of C15: a top-level object whose entry_point, if
\* present, is a string is validated without raising
ObjectWithStringEntryPointReturns ==
    (/\ ManifestChecked
     /\ manifest.top = "object"
     /\ manifest.fields["entry_point"] \in JsonStrings \cup {"absent"})
        => meta_result.outcome = "returned"

(***************************************************************************)
(* Claims about the imports of the entry file                              *)
(***************************************************************************)
\* the last import of the name in the entry file, 0 if there is none that
\* is relative or names a module of the plugin's own package
OwnPackage(module) ==
    module = PluginName \/ StartsWith(module, PluginName \o <<".">>)

PluginLocal(node) == node.level > 0 \/ OwnPackage(node.module)

\* the relative path that names the same module as the import does
EquivalentRelative(node) ==
    IF node.level > 0 THEN Dots(node.level) \o node.module
    ELSE IF node.module = PluginName THEN <<".">>
    ELSE DropFirst(node.module, Len(PluginName))      \* ".adapter" of "myplugin.adapter"

RECURSIVE ExpectedImports(_, _)
ExpectedImports(nodes, names) ==
    IF nodes = <<>> THEN [n \in names |-> NotImported]
    ELSE LET front == SubSeq(nodes, 1, Len(nodes) - 1)
             node == nodes[Len(nodes)]
             before == ExpectedImports(front, names)
         IN  IF PluginLocal(node) THEN [before EXCEPT ![node.name] = EquivalentRelative(node)]
             ELSE before

\* C16: Import classification.  In the map built from the entry file a
\* relative import keeps its dot count, an absolute import of a module of
\* the plugin's own package is rewritten to the equivalent relative path,
\* and a name imported by an absolute import of any other package (one
\* whose name merely starts with the plugin's name included) is not in the
\* map.
C16_ImportClassification ==
    pc = "imports_collected" => import_map = ExpectedImports(entry_imports, ImportedNames)

\* the part of C16 that holds: relative imports keep their dot count, and
\* absolute imports of packages that do not start with the plugin's name
\* are left out
RelativeAndForeign(node) == node.level > 0 \/ ~StartsWith(node.module, PluginName)

RelativeImportsKeepDots ==
    (/\ pc = "imports_collected"
     /\ \A i \in 1..Len(entry_imports) : RelativeAndForeign(entry_imports[i]))
        => import_map = ExpectedImports(entry_imports, ImportedNames)

(***************************************************************************)
(* Claims about the validation run                                         *)
(***************************************************************************)
\* the first top-level `return <value>` returns a computed expression
ReturnsComputed(stmts) ==
    FirstValueReturn(stmts, 1) # 0 /\ stmts[FirstValueReturn(stmts, 1)].kind = "return_expr"

\* no top-level `return <value>`; the returns, if any, are nested in a
\* conditional or return nothing
NoTopLevelValueReturn(stmts) == FirstValueReturn(stmts, 1) = 0

\* the returned list literal, or the returned variable, holds no names
ReturnsNoNames(stmts) ==
    /\ FirstValueReturn(stmts, 1) # 0
    /\ stmts[FirstValueReturn(stmts, 1)].kind \in {"return_list", "return_name"}
    /\ ReturnedNames(stmts, stmts[FirstValueReturn(stmts, 1)]) = <<>>

Degrades(stmts) ==
    ReturnsComputed(stmts) \/ NoTopLevelValueReturn(stmts) \/ ReturnsNoNames(stmts)

IssuesOfKind(all_issues, kind) ==
    {i \in 1..Len(all_issues) : all_issues[i].kind = kind}

ConfigChecked == pc = "config_checked"

\* the plugin class has a configs attribute whose value is a list literal
DeclaresList == config_source.form \in {"assign", "ann_assign"}

\* the plugin class declares no config class: no configs attribute, or an
\* empty list
DeclaresNoConfigs ==
    \/ config_source.form = "none"
    \/ DeclaresList /\ config_source.names = <<>>

\* the three places the name may be found in
Resolvable(name) == config_source.where[name] \in {"plugin_py", "imported", "tree", "init_only"}

ErrorsNaming(name) ==
    {i \in 1..Len(issues) : issues[i].level = "error" /\ issues[i].class_name = name}

AnyIssueOfLevel(level) == \E i \in 1..Len(issues) : issues[i].level = level

\* C20: Config resolution.  If the plugin class declares no config classes,
\* the result has a Warning and no Error; for each name of the literal
\* configs list of the plugin class whose class is defined neither in
\* plugin.py, nor in a relatively imported module, nor in any .py file of
\* the plugin tree, the result has exactly one Error naming that class.
C20_ConfigResolution ==
    ConfigChecked =>
        /\ (DeclaresNoConfigs => AnyIssueOfLevel("warning") /\ ~AnyIssueOfLevel("error"))
        /\ (DeclaresList =>
                \A k \in 1..Len(config_source.names) :
                    ~Resolvable(config_source.names[k])
                        => Cardinality(ErrorsNaming(config_source.names[k])) = 1)

\* the part of C20 the code keeps: the same for a plugin class without
\* configs and for a configs list written as a plain assignment
PlainAssignmentResolution ==
    (ConfigChecked /\ config_source.form # "ann_assign") =>
        /\ (DeclaresNoConfigs => AnyIssueOfLevel("warning") /\ ~AnyIssueOfLevel("error"))
        /\ (DeclaresList =>
                \A k \in 1..Len(config_source.names) :
                    ~Resolvable(config_source.names[k])
                        => /\ Cardinality(ErrorsNaming(config_source.names[k])) = 1
                           /\ \A i \in ErrorsNaming(config_source.names[k]) :
                                    issues[i].kind = "config_not_found")

(***************************************************************************)
(* Claims about the manifest fix                                           *)
(***************************************************************************)
ManifestFixRan == pc \in {"manifest_fixed", "manifest_rechecked"} /\ passes >= 1

\* C21: Manifest creation.  When manifest.json was absent, the directory is
\* writable and fix_issues has consumed the 'manifest.json does not exist'
\* Error, manifest.json is an object that has every required key, its name
\* is the directory name, and a following MetadataValidator run returns a
\* result without an Error; when manifest.json existed as the fix began,
\* its content is the same afterwards.
C21_ManifestCreation ==
    /\ (/\ ManifestFixRan
        /\ manifest_before.top = "no_file"
        /\ plugin_dir.writable)
          => /\ manifest.top = "object"
             /\ \A k \in Range(REQUIRED_FIELDS) : manifest.fields[k] # "absent"
             /\ manifest.fields["name"] = "dir_name"
             /\ (pc = "manifest_rechecked"
                    => meta_result.outcome = "returned" /\ Success(meta_result))
    /\ (ManifestFixRan /\ manifest_before.top # "no_file") => manifest = manifest_before

\* C21 witness: the manifest was absent, the fix created it and recorded
\* that, and the validator has run again on the created file
C21_Witness ==
    /\ pc = "manifest_rechecked"
    /\ passes = 1
    /\ manifest_before.top = "no_file"
    /\ manifest.top = "object"
    /\ Len(fixes_applied) = 1
    /\ Success(meta_result)

\* the second pass meets the 'does not exist' Error again and finds the file
\* it created in the first pass
ManifestFixMeetsExistingFile ==
    /\ pc = "manifest_fixed"
    /\ passes = 2
    /\ manifest_before.top = "object"
    /\ \E i \in 1..Len(meta_result.issues) : IsMissingManifestIssue(meta_result.issues[i])

(***************************************************************************)
(* Claims about a run over a plugin tree                                   *)
(***************************************************************************)
RunTree == WithPluginPy(plugin_file, files)

\* the discovered components whose class is named c
EntriesOf(c) == {i \in 1..Len(components) : components[i].class_name = c}

\* the issues of the run that belong to the component class c
IssuesOfComponent(c) == SelectSeq(issues, LAMBDA i : i.class_name = c)

\* what the run may report about a component that is registered n times
RECURSIVE Runs(_, _)
Runs(S, n) == IF n = 0 THEN {<<>>} ELSE {a \o b : a \in S, b \in Runs(S, n - 1)}

\* the one Error of a component file that does not parse
ParseFailure(c) == <<Issue("error", "parse_failed", c.class_name, "", c.file_path, "none", <<>>)>>

\* the file of a discovered component fails to parse
FailsToParse(info) == \E c \in ComponentOfInfo(RunTree, info) : c.located = "parse_error"

\* C22: Parse-failure isolation.  After a run that discovered components, a
\* component whose source file fails to parse has, for each time it is
\* registered, exactly one issue, an Error whose file_path is the path of
\* that file relative to the plugin directory, and every other discovered
\* component, before or after it in the list, has the issues its validation
\* alone gives (for one of the files the directory scan may return first).
C22_ParseFailureIsolation ==
    (pc = "run_done" /\ components # <<>>)
        => \A k \in 1..Len(components) :
             LET name == components[k].class_name
                 read == ComponentOfInfo(RunTree, components[k])
             IN  IssuesOfComponent(name)
                    \in Runs({IF c.located = "parse_error" THEN ParseFailure(c)
                                                            ELSE ValidateComponent(c) : c \in read},
                             Cardinality(EntriesOf(name)))

\* C22 witness: Bar, Foo, Bar are discovered, actions/foo.py fails to parse,
\* and Bar has its issues before and after the Error about actions/foo.py
C22_Witness ==
    /\ pc = "run_done"
    /\ Len(components) = 3
    /\ FailsToParse(components[2])
    /\ ~FailsToParse(components[1])
    /\ \E i, j, k \in 1..Len(issues) :
          /\ i < j /\ j < k
          /\ issues[i].class_name = "Bar"
          /\ issues[j].kind = "parse_failed" /\ issues[j].file_path = FooPy
          /\ issues[k].class_name = "Bar"

(***************************************************************************)
(* Claims about alias base names                                           *)
(***************************************************************************)
\* the alias entries of COMPONENT_REQUIRED_FIELDS and the canonical name
\* whose field list each repeats (lines 52-71)
CanonicalBaseOf ==
    [Action |-> "BaseAction", Command |-> "BaseCommand", Tool |-> "BaseTool",
     EventHandler |-> "BaseEventHandler", Adapter |-> "BaseAdapter",
     Chatter |-> "BaseChatter", Collection |-> "BaseCollection",
     Service |-> "BaseService", Router |-> "BaseRouterComponent"]

DerivesFromAlias ==
    /\ component.located = "ok"
    /\ component.base.kind = "name"
    /\ component.base.id \in DOMAIN CanonicalBaseOf

\* the same class body deriving from the canonical name
WithCanonicalBase == [component EXCEPT !.base.id = CanonicalBaseOf[component.base.id]]

\* C23: Alias equivalence.  A component deriving from an alias base name
\* gets the issues the same class body gets when it derives from the
\* canonical Base* name: the same required attributes, required methods and
\* signature specs apply.
C23_AliasEquivalence ==
    (pc = "validated" /\ DerivesFromAlias) => issues = ValidateComponent(WithCanonicalBase)

\* the required attributes of an alias are those of its canonical name
AliasFieldsAgree ==
    \A a \in DOMAIN CanonicalBaseOf :
        COMPONENT_REQUIRED_FIELDS[a] = COMPONENT_REQUIRED_FIELDS[CanonicalBaseOf[a]]

\* a class deriving from Action that does not define execute gets no issue
AliasWithoutMethodPasses ==
    /\ pc = "validated"
    /\ DerivesFromAlias
    /\ component.base.id = "Action"
    /\ component.methods["execute"] = NoMethod
    /\ issues = <<>>

(***************************************************************************)
(* Claims about the registration method                                    *)
(***************************************************************************)
HasIssueOfKind(k) == \E i \in 1..Len(issues) : issues[i].kind = k

\* the run examined get_components of the plugin class
RegistrationMethodChecked ==
    /\ pc = "run_done"
    /\ plugin_file.exists /\ plugin_file.parses /\ plugin_file.has_class
    /\ plugin_file.get_components \in {"def", "async_def"}

\* C24 as stated: the signature Warning is emitted if and only if
\* get_components does not have exactly one parameter besides the receiver,
\* and the return annotation Warning if and only if it has no return
\* annotation.
C24_OneParameterBesidesReceiver ==
    RegistrationMethodChecked
        => /\ HasIssueOfKind("get_components_signature") <=> (plugin_file.nargs - 1 # 1)
           /\ HasIssueOfKind("get_components_no_return_type") <=> ~plugin_file.returns

\* C24 amended: the signature Warning is emitted if and only if the
\* positional parameters of get_components are not the receiver alone, and
\* the return annotation Warning if and only if it has no return annotation;
\* both are Warnings and each is emitted at most once.
C24_ReceiverOnly ==
    RegistrationMethodChecked
        => /\ HasIssueOfKind("get_components_signature") <=> (plugin_file.nargs # 1)
           /\ HasIssueOfKind("get_components_no_return_type") <=> ~plugin_file.returns
           /\ \A i \in 1..Len(issues) :
                issues[i].kind \in {"get_components_signature", "get_components_no_return_type"}
                    => /\ issues[i].level = "warning"
                       /\ \A j \in 1..Len(issues) : issues[j].kind = issues[i].kind => j = i

\* C24 witness: get_components(self, config) without a return annotation
\* has both Warnings
C24_Witness ==
    /\ RegistrationMethodChecked
    /\ plugin_file.nargs = 2
    /\ ~plugin_file.returns
    /\ HasIssueOfKind("get_components_signature")
    /\ HasIssueOfKind("get_components_no_return_type")

\* get_components(self) -> list[type] has neither Warning
ReceiverOnlyPasses ==
    /\ RegistrationMethodChecked
    /\ plugin_file.nargs = 1
    /\ plugin_file.returns
    /\ ~HasIssueOfKind("get_components_signature")
    /\ ~HasIssueOfKind("get_components_no_return_type")

(***************************************************************************)
(* Claims about the placeholder defaults                                   *)
(***************************************************************************)
\* the name and description attributes of the rule table
TableNameFields == {COMPONENT_REQUIRED_FIELDS[b][1] : b \in DOMAIN COMPONENT_REQUIRED_FIELDS}
TableDescriptionFields == {COMPONENT_REQUIRED_FIELDS[b][2] : b \in DOMAIN COMPONENT_REQUIRED_FIELDS}

\* the default the attribute fix is to insert for a field
PlaceholderFor(field_name) ==
    IF field_name \in TableNameFields THEN "title_cased"
    ELSE IF field_name \in TableDescriptionFields THEN "description_placeholder"
    ELSE IF field_name \in VersionFields THEN "0.1.0"
    ELSE ""

\* the attribute fixes recorded as applied
AttributeFixes == {i \in 1..Len(fixes_applied) : fixes_applied[i].fix = "add_attr"}

\* the value of the attribute a recorded fix inserted, read from the file
InsertedValue(rec) ==
    LET file == files[rec.path].classes
    IN  AttrOf(file[FindClass(file, rec.class_name, 1)].body, rec.subject)

\* C25: Placeholder defaults.  Every attribute the attribute fix inserted for
\* a required attribute of the rule table is a title-cased non-empty string
\* for a name field, the description placeholder for a description field,
\* "0.1.0" for a version field, and the empty string only for another field.
C25_PlaceholderDefaults ==
    \A i \in AttributeFixes :
        LET rec == fixes_applied[i]
        IN  /\ DefaultLiteralForField(rec.subject) = PlaceholderFor(rec.subject)
            /\ InsertedValue(rec) = (IF PlaceholderFor(rec.subject) = "" THEN "empty_str" ELSE "str")

\* for the fields the two lists of _get_default_value_for_field name, the
\* inserted value is the claimed one
ListedFieldsGetPlaceholders ==
    \A i \in AttributeFixes :
        LET rec == fixes_applied[i]
        IN  rec.subject \in NameFields \cup DescFields
                => /\ DefaultLiteralForField(rec.subject) = PlaceholderFor(rec.subject)
                   /\ InsertedValue(rec) = "str"

\* router_name was missing and the fix inserted router_name = ""
RouterNameInsertedEmpty ==
    \E i \in AttributeFixes :
        /\ fixes_applied[i].subject = "router_name"
        /\ InsertedValue(fixes_applied[i]) = "empty_str"

\* command_name was missing and the fix inserted a non-empty string
CommandNameInserted ==
    \E i \in AttributeFixes :
        /\ fixes_applied[i].subject = "command_name"
        /\ InsertedValue(fixes_applied[i]) = "str"

(***************************************************************************)
(* Claims about the return-type fix                                        *)
(***************************************************************************)
ReturnTypeKinds == {"missing_return", "return_mismatch"}

\* the return annotation of method m of the examined class, read from the
\* file the validator examined
AnnotationNow(m) ==
    LET file == files[component.file_path].classes
    IN  MethodOf(file[FindClass(file, component.class_name, 1)].body, m).returns

\* fix_issues has run on the issues of a component whose class was examined
FixedExaminedComponent ==
    /\ pc = "fixed"
    /\ passes >= 1
    /\ component.located = "ok"

\* C26: Return-type fix.  After fix_issues has run on the issues of a
\* component, for every return-type Warning among them (annotation absent,
\* or present but not matching the expected type) about method m of the
\* class, the return annotation of m in that class is the expected type.
C26_ReturnTypeFix ==
    FixedExaminedComponent
        => \A i \in 1..Len(issues) :
              issues[i].kind \in ReturnTypeKinds
                  => AnnotationNow(issues[i].subject) = issues[i].arg

\* the part that holds: a Warning about an absent annotation, on a writable
\* file that lies in the plugin directory itself, is fixed
AbsentAnnotationFixedAtTop ==
    FixedExaminedComponent
        => \A i \in 1..Len(issues) :
              (/\ issues[i].kind = "missing_return"
               /\ Len(component.file_path) = 1
               /\ ~checked[component.file_path].read_only)
                  => AnnotationNow(issues[i].subject) = issues[i].arg

\* a Warning about a non-matching annotation was handed to fix_issues, in a
\* writable file of the plugin directory, and the annotation is as before
MismatchLeftAsIs ==
    /\ FixedExaminedComponent
    /\ Len(component.file_path) = 1
    /\ ~checked[component.file_path].read_only
    /\ \E i \in 1..Len(issues) :
          /\ issues[i].kind = "return_mismatch"
          /\ AnnotationNow(issues[i].subject) = <<"str">>

\* an absent annotation was added by the fix
AbsentAnnotationAdded ==
    /\ FixedExaminedComponent
    /\ \E i \in 1..Len(issues) :
          /\ issues[i].kind = "missing_return"
          /\ AnnotationNow(issues[i].subject) = issues[i].arg
          /\ FixRecorded("fix_return")

(***************************************************************************)
(* Claims about the resolution of component files                          *)
(***************************************************************************)
\* the files of the tree, other than __init__.py, whose text has
\* `class <name>(`
FilesNaming(class_name) ==
    {p \in DOMAIN RunTree : /\ RunTree[p].exists
                            /\ p[Len(p)] # "__init__.py"
                            /\ \E i \in 1..Len(RunTree[p].classes) :
                                  /\ RunTree[p].classes[i].name = class_name
                                  /\ RunTree[p].classes[i].base.kind # "none"}

\* the files the resolution order allows for a discovered component: the
\* first of plugin.py (no import path), the module file, the package's
\* __init__.py, and any file the scan may meet first
FilesInOrder(info) ==
    IF info.import_from = "" THEN {PluginPy}
    ELSE IF RunTree[ModulePath(info.import_from)].exists THEN {ModulePath(info.import_from)}
    ELSE IF RunTree[InitPath(info.import_from)].exists THEN {InitPath(info.import_from)}
    ELSE FilesNaming(info.class_name)

TreeIsDrawn == FooPy \in DOMAIN files

\* C27: Component file resolution order.  The issues a run reports about a
\* discovered component are those of the class read from plugin.py when the
\* import path is empty, else from the module file of the import path if it
\* exists, else from the package's __init__.py if it exists, else from a
\* file other than __init__.py whose text has `class <name>(`; and when
\* there is none of these, one Warning naming the component and no Error.
C27_ResolutionOrder ==
    (pc = "run_done" /\ components # <<>> /\ TreeIsDrawn)
        => \A k \in 1..Len(components) :
             LET info == components[k]
                 about == IssuesOfComponent(info.class_name)
                 n == Cardinality(EntriesOf(info.class_name))
                 allowed == FilesInOrder(info)
             IN  IF allowed = {}
                 THEN /\ Len(about) = n
                      /\ \A i \in 1..n : /\ about[i].level = "warning"
                                         /\ about[i].kind = "file_not_found"
                                         /\ about[i].class_name = info.class_name
                 ELSE about \in Runs({ValidateComponent(ComponentAt(RunTree, p, info.class_name)) :
                                        p \in allowed}, n)

\* C27 witness: actions/foo.py and the package file are absent, two files of
\* the tree define Foo, and the issue about Foo carries the path of one of
\* them
C27_Witness ==
    /\ pc = "run_done"
    /\ TreeIsDrawn
    /\ ~files[FooPy].exists /\ ~files[FooInitPy].exists
    /\ Cardinality(FilesNaming("Foo")) = 2
    /\ \E i \in 1..Len(issues) :
          /\ issues[i].class_name = "Foo"
          /\ issues[i].file_path \in FilesNaming("Foo")

\* the package file is used although another file defines the class
PackageFileBeforeScan ==
    /\ pc = "run_done"
    /\ TreeIsDrawn
    /\ ~files[FooPy].exists /\ files[FooInitPy].exists
    /\ FilesNaming("Foo") # {}
    /\ \E i \in 1..Len(issues) : issues[i].class_name = "Foo" /\ issues[i].file_path = FooInitPy

\* nothing is found and the one Warning is reported
NothingResolved ==
    /\ pc = "run_done"
    /\ TreeIsDrawn
    /\ \E k \in 1..Len(components) : /\ components[k].import_from # ""
                                     /\ FilesInOrder(components[k]) = {}
    /\ \E i \in 1..Len(issues) : issues[i].kind = "file_not_found" /\ issues[i].class_name = "Foo"

(***************************************************************************)
(* Claims about the parameter shape check                                  *)
(***************************************************************************)
ParameterKinds == {"missing_params", "too_many_params"}

\* the positional parameters of a method besides the receiver
ParametersBesidesReceiver(meth) == IF meth.nargs = 0 THEN 0 ELSE meth.nargs - 1

\* C28: Parameter shape check.  For a required method that the class defines
\* and whose signature spec lists parameters: exactly one Error when the
\* method has fewer positional parameters besides the receiver than the spec
\* lists, exactly one Warning when it has more and declares neither *args
\* nor **kwargs, and no parameter issue otherwise; when the spec's params is
\* "variable", no parameter issue.
C28_ParameterShape ==
    (ClassFound /\ KnownBase) =>
        \A k \in 1..Len(RequiredMethodsOfComponent) :
            LET m == RequiredMethodsOfComponent[k]
                meth == component.methods[m]
                about == IssuesOfKindAbout(ParameterKinds, m)
            IN  (meth # NoMethod /\ m \in DOMAIN SignaturesOfComponent) =>
                    LET params == SignaturesOfComponent[m].params
                        has == ParametersBesidesReceiver(meth)
                    IN  IF params = VariableParams THEN about = {}
                        ELSE IF has < Len(params)
                        THEN /\ Cardinality(about) = 1
                             /\ \A i \in about : /\ issues[i].level = "error"
                                                 /\ issues[i].kind = "missing_params"
                        ELSE IF has > Len(params) /\ ~meth.vararg /\ ~meth.kwarg
                        THEN /\ Cardinality(about) = 1
                             /\ \A i \in about : /\ issues[i].level = "warning"
                                                 /\ issues[i].kind = "too_many_params"
                        ELSE about = {}

\* C28 witness: execute(self) on a BaseCommand class, whose spec lists
\* message_text, is reported by one Error
C28_Witness ==
    /\ ClassFound
    /\ BaseClassOfComponent = "BaseCommand"
    /\ component.methods["execute"] # NoMethod
    /\ component.methods["execute"].nargs = 1
    /\ Cardinality(IssuesOfKindAbout({"missing_params"}, "execute")) = 1

\* execute(self, a, b, **kwargs) on a BaseCommand class has no parameter issue
CatchAllAcceptsMore ==
    /\ ClassFound
    /\ BaseClassOfComponent = "BaseCommand"
    /\ component.methods["execute"].nargs = 3
    /\ component.methods["execute"].kwarg
    /\ IssuesOfKindAbout(ParameterKinds, "execute") = {}

\* execute(self, a, b) on a BaseCommand class has the Warning
TooManyIsWarned ==
    /\ ClassFound
    /\ BaseClassOfComponent = "BaseCommand"
    /\ component.methods["execute"].nargs = 3
    /\ ~component.methods["execute"].kwarg /\ ~component.methods["execute"].vararg
    /\ Cardinality(IssuesOfKindAbout({"too_many_params"}, "execute")) = 1

\* execute(self, a, b) on a BaseAction class, whose params is "variable",
\* has no parameter issue
VariableParamsSkipCheck ==
    /\ ClassFound
    /\ BaseClassOfComponent = "BaseAction"
    /\ component.methods["execute"].nargs = 3
    /\ ~component.methods["execute"].kwarg /\ ~component.methods["execute"].vararg
    /\ IssuesOfKindAbout(ParameterKinds, "execute") = {}

(***************************************************************************)
(* Claims about the plugin-attribute fix                                   *)
(***************************************************************************)
PluginNameFixApplied ==
    \E i \in 1..Len(fixes_applied) :
        /\ fixes_applied[i].fix = "add_attr"
        /\ fixes_applied[i].path = PluginPy
        /\ fixes_applied[i].subject = "plugin_name"

\* C29: Plugin-attribute fix targets the plugin class.  When the class
\* deriving from BasePlugin lacked plugin_name and fix_issues has applied the
\* plugin-attribute fix, the class deriving from BasePlugin has a non-empty
\* plugin_name, and a following ComponentValidator run does not report the
\* 'missing plugin_name' Error.
C29_PluginAttributeTarget ==
    (PluginNameFixApplied /\ pc \in {"run_fixed", "run_rechecked"})
        => /\ plugin_file.plugin_name = "ok"
           /\ pc = "run_rechecked" => ~HasIssueOfKind("missing_plugin_name")

\* the part that holds: when the plugin class is the first class statement
\* of plugin.py, the fix gives it plugin_name and the Error is gone
PluginClassFirstIsFixed ==
    (PluginNameFixApplied /\ pc \in {"run_fixed", "run_rechecked"} /\ plugin_file.class_first)
        => /\ plugin_file.plugin_name = "ok"
           /\ pc = "run_rechecked" => ~HasIssueOfKind("missing_plugin_name")

\* Bar precedes the plugin class in plugin.py: the fix is recorded as
\* applied, Bar has the attribute plugin_name, and the following run reports
\* the 'missing plugin_name' Error again
PluginNameInsertedIntoOtherClass ==
    /\ pc = "run_rechecked"
    /\ PluginNameFixApplied
    /\ ~plugin_file.class_first
    /\ plugin_file.classes # <<>>
    /\ ClassHasAttr(plugin_file.classes[1], "plugin_name")
    /\ plugin_file.plugin_name = "absent"
    /\ HasIssueOfKind("missing_plugin_name")

\* the plugin class is first, the fix was applied and the Error is gone
PluginNameInserted ==
    /\ pc = "run_rechecked"
    /\ PluginNameFixApplied
    /\ plugin_file.class_first
    /\ plugin_file.plugin_name = "ok"
    /\ ~HasIssueOfKind("missing_plugin_name")

(***************************************************************************)
(* Claims about the paths of issues                                        *)
(***************************************************************************)
\* the validator has examined a file for the component
FileExamined == pc # "check" /\ component # <<>> /\ component.located # "unresolved"

\* C30: Issue path round-trip.  For every issue ComponentValidator emitted
\* about a component, _resolve_file_path applied to the file_path of the
\* issue is the file the validator examined, also when that file lies in a
\* sub-directory of the plugin.
C30_IssuePathRoundTrip ==
    FileExamined
        => \A k \in 1..Len(issues) : ResolveFilePath(issues[k].file_path) = component.file_path

\* the part that holds: the path of a file in the plugin directory itself
\* comes back unchanged
TopLevelPathRoundTrip ==
    (FileExamined /\ Len(component.file_path) = 1)
        => \A k \in 1..Len(issues) : ResolveFilePath(issues[k].file_path) = component.file_path

\* an issue about actions/my_action.py was resolved to my_action.py, a
\* different file that exists, and the fix was written there
FixWrittenToOtherFile ==
    /\ pc = "fixed"
    /\ component.located = "ok"
    /\ component.file_path = Sub
    /\ issues # <<>>
    /\ ResolveFilePath(issues[1].file_path) = Top
    /\ files[Top] # checked[Top]
    /\ files[Sub] = checked[Sub]

====
